---- MODULE Spec2Model ----
(***************************************************************************)
(* InstaClaw metering-and-routing kernel (src/app.py).                     *)
(*                                                                         *)
(* The state is the sqlite database (tables users, usage_logs,             *)
(* analytics_daily, webhook_events) with its write lock, the storage of    *)
(* the rate limiter, the wall clock, one record per HTTP request holding   *)
(* flask's `request` attributes and the handler's locals, and one record   *)
(* for the request to /webhook/stripe.  A SELECT is one step, and what     *)
(* it returned is held by the request from there on.  A transaction        *)
(* that writes is two steps or more: its first INSERT or UPDATE takes      *)
(* the write lock of the database, or raises "database is locked" when     *)
(* another connection has held it for the 5 s of the default timeout,      *)
(* and its commit publishes the rows and frees the lock; a reader only     *)
(* sees committed data.  A statement that raises inside its transaction    *)
(* leaves the connection holding the lock until the connection is          *)
(* freed.  Each read of the clock is made where the handler makes it,      *)
(* between the statements that other requests can observe, so the clock    *)
(* may advance between two reads of one handler and between a read and     *)
(* the commit of what was read.  The limiter's count is a step of its      *)
(* own, and so is the lookup of a request's limit.  The steps of one       *)
(* request interleave freely with the steps of the others (threaded=True   *)
(* / gunicorn --workers 2).                                                *)
(*                                                                         *)
(* Units: time is counted in days; money in millionths of a dollar;        *)
(* latency in milliseconds.                                                *)
(***************************************************************************)
EXTENDS Integers, Sequences, FiniteSets, TLC

(* ------------------------------ bounds -------------------------------- *)

\* Number of HTTP requests to /api/chat and /api/openclaw in one run.
MaxReqs == 2

\* Number of days the clock may advance in one run.
MaxTicks == 1

\* Largest number of entries in the "tools" array of an /api/openclaw body.
MaxTools == 2

\* Longest prompt, in characters, handed to the fallback responders.
MaxPromptLen == 8

(* ------------------------- static configuration ----------------------- *)

SUBSCRIPTION_TIERS ==
  [ free       |-> [tokens_per_month |-> 10000,    rate_limit |-> 100,
                    stripe_price_id |-> "None"],
    starter    |-> [tokens_per_month |-> 100000,   rate_limit |-> 1000,
                    stripe_price_id |-> "price_starter_monthly"],
    pro        |-> [tokens_per_month |-> 1000000,  rate_limit |-> 5000,
                    stripe_price_id |-> "price_pro_monthly"],
    enterprise |-> [tokens_per_month |-> 10000000, rate_limit |-> 20000,
                    stripe_price_id |-> "price_enterprise_monthly"] ]

\* timedelta(days=30): the length of a billing period.
PERIOD_DAYS == 30

\* Tokens and cost (millionths of a dollar) of one mock tool execution.
TOOL_TOKENS == 10

TOOL_COST == 100

\* The fixed latencies reported by the mocks and by /api/openclaw (ms).
OPENAI_MOCK_MS == 500

CLAUDE_MOCK_MS == 700

OPENCLAW_MS == 1200

\* "100/hour": the limit of get_rate_limit without a key or without a row.
DEFAULT_RATE_LIMIT == 100

\* "100 per hour": the fixed limit of /api/openclaw.
OPENCLAW_RATE_LIMIT == 100

(* ------------------------------ universe ------------------------------ *)

\* The ids the users table can hold: "u1" is the account a visitor registers,
\* "u2" the demo account that init_db creates.
Accounts == {"u1", "u2"}

\* users.api_key (UNIQUE) of each account: "sk_" + md5(...) for a registered
\* account, "demo_" + md5("demo")[:16] for the demo account.
ApiKeyOf(u) == IF u = "u1" THEN "key1" ELSE "key2"

\* users.email (UNIQUE) of each account.
EmailOf(u) == IF u = "u1" THEN "u1@example.com" ELSE "demo@example.com"

\* "" stands for a request that carries no X-API-Key header and no api_key
\* query parameter; "invalid_key" matches no row of users.
Credentials == {"", "invalid_key", "key1", "key2"}

Reqs == 1 .. MaxReqs

\* get_remote_address: the addresses requests come from.
Addrs == {"ip1", "ip2"}

StartDay == PERIOD_DAYS

\* A prompt is a string, modelled as the tuple of the code points of its
\* characters: 97 .. 100 are the letters a .. d, 32 is the blank.
EmptyPrompt == << >>

FourWords == <<97, 32, 98, 32, 99, 32, 100>>

\* The JSON bodies posted to /api/chat: with an empty prompt, without the
\* "prompt" key, with all three keys, and with the prompt only.
ChatBodies ==
  { [prompt |-> EmptyPrompt, model |-> "auto", provider |-> "auto"],
    [model |-> "auto", provider |-> "auto"],
    [prompt |-> FourWords,   model |-> "auto", provider |-> "auto"],
    [prompt |-> FourWords] }

\* What the live upstream does when it is called: it is not configured, it
\* raises, it answers with a token count and a latency, or it stays silent
\* until the client library gives up and raises.
Upstreams ==
  { [kind |-> "unconfigured", tokens |-> 0, ms |-> 0],
    [kind |-> "error",        tokens |-> 0, ms |-> 0],
    [kind |-> "timeout",      tokens |-> 0, ms |-> 0],
    [kind |-> "ok",           tokens |-> 8, ms |-> 900] }

\* The "model" and "provider" values a body can carry ("auto" when the key is
\* absent) and the bodies that combine them with a prompt.
Models == {"auto", "gpt-4", "gpt-3.5-turbo", "gpt-4-turbo",
           "claude-3-haiku-20240307", "claude-3-sonnet-20240229",
           "claude-3-opus-20240229", "llama-2"}

Providers == {"auto", "openai", "anthropic", "google"}

RouteBodies ==
  { [prompt |-> FourWords, model |-> m, provider |-> p] :
      m \in Models, p \in Providers }

\* The prompts handed to the fallback responders: every string of the letter
\* a and blanks up to MaxPromptLen characters, and five with other characters:
\* a TAB b LF c; LF a CR LF; a FF b NBSP c EM-SPACE d; a VT b FS c
\* IDEOGRAPHIC-SPACE; and a ZERO-WIDTH-SPACE b, which str.split() keeps in one
\* word.
Prompts ==
  UNION { [1 .. n -> {97, 32}] : n \in 1 .. MaxPromptLen }
  \cup { <<97, 9, 98, 10, 99>>, <<10, 97, 13, 10>>,
         <<97, 12, 98, 160, 99, 8195, 100>>,
         <<97, 11, 98, 28, 99, 12288>>,
         <<97, 8203, 98>> }

FallbackBodies ==
  { [prompt |-> p, model |-> m, provider |-> pr] :
      p \in Prompts,
      m \in {"auto", "gpt-4", "claude-3-haiku-20240307"},
      pr \in {"openai", "anthropic"} }

\* The pages served to a logged-in browser only.
DecoratedPages == {"/billing", "/analytics", "/test", "/endpoints",
                   "/integrations", "/safeguards", "/skills", "/community"}

ProtectedPages == DecoratedPages \cup {"/", "/admin"}

\* os.getenv('JWT_SECRET_KEY', app.secret_key)
JWT_SECRET_KEY == "secret"

\* session without 'jwt_token'.
NoToken == [user_id |-> "", exp |-> 0, key |-> ""]

\* What session['jwt_token'] can hold: a token for u1 signed with the server's
\* key or with another one, expiring on one of three days.
SessionTokens ==
  {NoToken} \cup
  { [user_id |-> "u1", exp |-> e, key |-> k] :
      e \in {StartDay, StartDay + 1, StartDay + 2},
      k \in {JWT_SECRET_KEY, "other"} }

\* price ids carried by checkout.session.completed events.
EventPriceIds == {"price_starter_monthly", "price_unknown"}

(* ------------------------------ helpers ------------------------------- *)

RECURSIVE SumSeq(_)
SumSeq(s) == IF s = << >> THEN 0 ELSE Head(s) + SumSeq(Tail(s))

\* The characters of a model name, for the names of Models.
Chars(name) ==
  CASE name = "auto"                    -> <<"a", "u", "t", "o">>
    [] name = "gpt-4"                   -> <<"g", "p", "t", "-", "4">>
    [] name = "gpt-3.5-turbo"           ->
         <<"g", "p", "t", "-", "3", ".", "5", "-", "t", "u", "r", "b", "o">>
    [] name = "gpt-4-turbo"             ->
         <<"g", "p", "t", "-", "4", "-", "t", "u", "r", "b", "o">>
    [] name = "claude-3-haiku-20240307" ->
         <<"c", "l", "a", "u", "d", "e", "-", "3", "-", "h", "a", "i", "k", "u",
           "-", "2", "0", "2", "4", "0", "3", "0", "7">>
    [] name = "claude-3-sonnet-20240229" ->
         <<"c", "l", "a", "u", "d", "e", "-", "3", "-", "s", "o", "n", "n", "e",
           "t", "-", "2", "0", "2", "4", "0", "2", "2", "9">>
    [] name = "claude-3-opus-20240229" ->
         <<"c", "l", "a", "u", "d", "e", "-", "3", "-", "o", "p", "u", "s",
           "-", "2", "0", "2", "4", "0", "2", "2", "9">>
    [] name = "llama-2"                 -> <<"l", "l", "a", "m", "a", "-", "2">>

\* str.startswith
StartsWith(name, prefix) ==
  /\ Len(Chars(name)) >= Len(prefix)
  /\ SubSeq(Chars(name), 1, Len(prefix)) = prefix

\* The code points str.split() separates words at, those for which
\* str.isspace() holds: U+0009 .. U+000D, U+001C .. U+0020, U+0085, U+00A0,
\* U+1680, U+2000 .. U+200A, U+2028, U+2029, U+202F, U+205F and U+3000.
Whitespace ==
  (9 .. 13) \cup (28 .. 32) \cup {133, 160, 5760} \cup (8192 .. 8202)
  \cup {8232, 8233, 8239, 8287, 12288}

\* len(prompt.split()): the number of maximal runs of non-blank characters.
WordCount(prompt) ==
  Cardinality({ i \in 1 .. Len(prompt) :
                  /\ prompt[i] \notin Whitespace
                  /\ (i = 1 \/ prompt[i - 1] \in Whitespace) })

(* --------------------------- provider adapter ------------------------- *)

calculate_openai_cost(model, tokens) ==
  tokens * (CASE model = "gpt-4"         -> 30
              [] model = "gpt-3.5-turbo" -> 2
              [] model = "gpt-4-turbo"   -> 10
              [] OTHER                   -> 2)

calculate_anthropic_cost(model, tokens) ==
  tokens * (CASE model = "claude-3-sonnet-20240229" -> 15
              [] model = "claude-3-haiku-20240307"  -> 1
              [] model = "claude-3-opus-20240229"   -> 75
              [] OTHER                              -> 15)

\* int(len(prompt.split()) * 1.3)
call_openai_mock(prompt, model) ==
  LET tokens == (WordCount(prompt) * 13) \div 10
  IN [response |-> "[MOCK]", tokens |-> tokens,
      cost |-> calculate_openai_cost(model, tokens),
      model |-> model, response_time |-> OPENAI_MOCK_MS, provider |-> "openai"]

\* The anthropic fallback estimating with the openai multiplier.
call_claude_mock_Multiplier13(prompt, model) ==
  LET tokens == (WordCount(prompt) * 13) \div 10
  IN [response |-> "[MOCK]", tokens |-> tokens,
      cost |-> calculate_anthropic_cost(model, tokens),
      model |-> model, response_time |-> CLAUDE_MOCK_MS, provider |-> "anthropic"]

\* int(len(prompt.split()) * 1.2)
call_claude_mock(prompt, model) ==
  LET tokens == (WordCount(prompt) * 12) \div 10
  IN [response |-> "[MOCK]", tokens |-> tokens,
      cost |-> calculate_anthropic_cost(model, tokens),
      model |-> model, response_time |-> CLAUDE_MOCK_MS, provider |-> "anthropic"]

\* The adapter handing the upstream's error to its caller.
call_openai_api_Propagates(prompt, model, up) ==
  IF up.kind = "ok"
  THEN [response |-> "content", tokens |-> up.tokens,
        cost |-> calculate_openai_cost(model, up.tokens),
        model |-> model, response_time |-> up.ms, provider |-> "openai"]
  ELSE IF up.kind = "error"
  THEN [response |-> "OpenAI API error", tokens |-> 0, cost |-> 0,
        model |-> model, response_time |-> 0, provider |-> "openai"]
  ELSE call_openai_mock(prompt, model)

\* "content" stands for the text the upstream answered.
call_openai_api(prompt, model, up) ==
  IF up.kind = "ok"
  THEN [response |-> "content", tokens |-> up.tokens,
        cost |-> calculate_openai_cost(model, up.tokens),
        model |-> model, response_time |-> up.ms, provider |-> "openai"]
  ELSE call_openai_mock(prompt, model)

call_anthropic_api(prompt, model, up) ==
  IF up.kind = "ok"
  THEN [response |-> "content", tokens |-> up.tokens,
        cost |-> calculate_anthropic_cost(model, up.tokens),
        model |-> model, response_time |-> up.ms, provider |-> "anthropic"]
  ELSE call_claude_mock(prompt, model)

(* ---------------------------- provider router ------------------------- *)

\* The routing with the model prefix tested before the provider name.
Route_PrefixFirst(model, provider) ==
  IF StartsWith(model, <<"g", "p", "t">>) \/ provider = "openai"
  THEN [api |-> "openai",
        model |-> IF model # "auto" THEN model ELSE "gpt-3.5-turbo"]
  ELSE IF StartsWith(model, <<"c", "l", "a", "u", "d", "e">>) \/ provider = "anthropic"
  THEN [api |-> "anthropic",
        model |-> IF model # "auto" THEN model ELSE "claude-3-sonnet-20240229"]
  ELSE [api |-> "openai", model |-> "gpt-3.5-turbo"]

\* The branch chat takes for (model, provider): which adapter it calls and
\* with which model.
Route(model, provider) ==
  IF provider = "openai" \/ (provider = "auto" /\ StartsWith(model, <<"g", "p", "t">>))
  THEN [api |-> "openai",
        model |-> IF model # "auto" THEN model ELSE "gpt-3.5-turbo"]
  ELSE IF provider = "anthropic"
          \/ (provider = "auto" /\ StartsWith(model, <<"c", "l", "a", "u", "d", "e">>))
  THEN [api |-> "anthropic",
        model |-> IF model # "auto" THEN model ELSE "claude-3-sonnet-20240229"]
  ELSE [api |-> "openai", model |-> "gpt-3.5-turbo"]

CallProvider(route, prompt, up) ==
  IF route.api = "openai"
  THEN call_openai_api(prompt, route.model, up)
  ELSE call_anthropic_api(prompt, route.model, up)

(* -------------------------------- state ------------------------------- *)

VARIABLES
  users,            \* table users: a function from the ids of its rows
  usage_logs,       \* table usage_logs, in AUTOINCREMENT order
  analytics_daily,  \* table analytics_daily: a set of rows, one per (date, user_id)
  now,              \* datetime.now(), in days
  req,              \* per request: flask's request attributes and the locals
                    \* (until line 350 of require_api_key assigns the
                    \* request attributes, user_id, tier, tokens_included
                    \* and tokens_used hold the local `user`; reset_date
                    \* holds reset_date, then new_reset_date; timestamp the
                    \* clock value read for the usage row and today the day
                    \* read for the aggregate; committed whether the
                    \* bookkeeping has been committed)
  users0,           \* history: every row of users as it stood at the start
                    \* of the run or, for a later row, when it was inserted
  hits,             \* the limiter's storage: requests counted in the current
                    \* hourly window, per (address, endpoint, limit)
  db_lock,          \* the connection holding sqlite's write lock: its
                    \* statements are executed and not yet committed
  webhook_events,   \* table webhook_events: the ids (PRIMARY KEY) of its rows
  hook              \* the request to /webhook/stripe: its event, its
                    \* position in stripe_webhook and its answer

vars == <<users, usage_logs, analytics_daily, now, req, users0, hits, db_lock,
          webhook_events, hook>>

NoResult == [response |-> "", tokens |-> 0, cost |-> 0, model |-> "",
             response_time |-> 0, provider |-> ""]

\* A percentage is the number num / den.
NoPercentage == [num |-> 0, den |-> 1]

NoBody == [error |-> "", tokens_used |-> 0, total_tokens_used |-> 0,
           remaining_quota |-> 0, quota_percentage |-> NoPercentage,
           results |-> 0, api_key |-> ""]

\* A request that has not arrived yet.
IdleReq ==
  [ pc |-> "idle", addr |-> "", endpoint |-> "", api_key |-> "", user_id |-> "",
    tier |-> "", tokens_included |-> 0, tokens_used |-> 0, reset_date |-> 0,
    rate_limit |-> 0,
    prompt |-> EmptyPrompt, model |-> "", provider |-> "",
    route |-> [api |-> "", model |-> ""],
    result |-> NoResult, timestamp |-> 0, today |-> 0, committed |-> FALSE,
    email |-> "", is_json |-> FALSE,
    status |-> 0, body |-> NoBody,
    session |-> NoToken, session_after |-> NoToken,
    location |-> "", rendered |-> "" ]

\* No connection holds the write lock; the connection of request r holds it;
\* a connection of stripe_webhook holds it.
NoWriter == [holder |-> "none", r |-> 0]

WriterReq(r) == [holder |-> "request", r |-> r]

WriterWebhook == [holder |-> "webhook", r |-> 0]

\* No request to /webhook/stripe is being served; status is the answer to
\* the last one.
NoHook == [pc |-> "idle", id |-> "", user_id |-> "", tier |-> "", status |-> 0]

\* The amounts a limit can carry, and the limiter's keys: the counter of a
\* limit is kept per (remote address, endpoint, limit).
RateAmounts ==
  { SUBSCRIPTION_TIERS[t].rate_limit : t \in DOMAIN SUBSCRIPTION_TIERS }
  \cup {DEFAULT_RATE_LIMIT, OPENCLAW_RATE_LIMIT}

LimitKeys ==
  (Addrs \X {"/api/chat"} \X RateAmounts)
  \cup (Addrs \X {"/api/openclaw"} \X {OPENCLAW_RATE_LIMIT})

\* storage_uri memory:// after start, or after every window has expired.
NoHits == [k \in LimitKeys |-> 0]

(* ------------------------------- tables ------------------------------- *)

\* The row of INSERT INTO usage_logs ...; timestamp is the datetime.now() of
\* the statement's parameters.
UsageRow(user_id, result, endpoint, timestamp) ==
  [user_id |-> user_id, provider |-> result.provider, model |-> result.model,
   tokens |-> result.tokens, cost |-> result.cost, endpoint |-> endpoint,
   response_time |-> result.response_time, timestamp |-> timestamp]

\* The INSERT appends the row under the next AUTOINCREMENT id.
InsertUsage(table, row) == Append(table, row)

\* INSERT OR REPLACE INTO analytics_daily ... COALESCE((SELECT ...), 0) + ...
UpsertDaily(table, today, user_id, result) ==
  LET old == { row \in table : row.date = today /\ row.user_id = user_id }
      prev(field) == IF old = {} THEN 0 ELSE (CHOOSE row \in old : TRUE)[field]
  IN (table \ old) \cup
     { [date |-> today, user_id |-> user_id,
        total_requests |-> prev("total_requests") + 1,
        total_tokens |-> prev("total_tokens") + result.tokens,
        total_cost |-> prev("total_cost") + result.cost,
        avg_response_time |-> result.response_time] }

\* The loop of openclaw_unified over data['tools']: an entry without a tool
\* name is skipped, every other entry appends its mock result and adds its
\* tokens and its cost to the totals.
RECURSIVE ToolLoop(_)
ToolLoop(tools) ==
  IF tools = << >>
  THEN [results |-> << >>, total_tokens |-> 0, total_cost |-> 0]
  ELSE LET done == ToolLoop(SubSeq(tools, 1, Len(tools) - 1))
           tool_name == tools[Len(tools)]
       IN IF tool_name = "" THEN done
          ELSE [results |-> Append(done.results, tool_name),
                total_tokens |-> done.total_tokens + TOOL_TOKENS,
                total_cost |-> done.total_cost + TOOL_COST]

\* What openclaw_unified logs for the totals of its loop.
ToolsResult(total_tokens, total_cost) ==
  [response |-> "", tokens |-> total_tokens, cost |-> total_cost,
   model |-> "unified-api", response_time |-> OPENCLAW_MS,
   provider |-> "openclaw"]

\* The row init_db inserts for the demo account on day today; is_active takes
\* the column's DEFAULT TRUE.
DemoRow(today) ==
  [subscription_tier |-> "starter", tokens_included |-> 100000,
   tokens_used |-> 0, tokens_reset_date |-> today + PERIOD_DAYS,
   is_active |-> TRUE]

\* The row register inserts, reset_date being the date it computed.
NewRow(reset_date) ==
  [subscription_tier |-> "free",
   tokens_included |-> SUBSCRIPTION_TIERS.free.tokens_per_month,
   tokens_used |-> 0, tokens_reset_date |-> reset_date,
   is_active |-> TRUE]

(* ---------------------------- start states ---------------------------- *)

\* A prompt of seven words: 9 tokens from the openai fallback.
SevenWords == <<97, 32, 98, 32, 99, 32, 100, 32, 97, 32, 98, 32, 99>>

\* The usage rows behind the tokens_used of a row of users.  A period end is
\* written 30 days ahead, so the period of the row began on the day 30 days
\* before its period end, and the calls counted in tokens_used were made from
\* that day on; here, on that day.  /api/openclaw adds 10 tokens per tool; a
\* count that is no multiple of 10 holds chat calls as well: one of 9 tokens
\* (seven words, fallback) for a count ending in 9, and after it one of 5
\* tokens (four words), admitted one token below the ceiling, for a count
\* ending in 4.
HistoryOf(u, row) ==
  LET day == row.tokens_reset_date - PERIOD_DAYS
      used == row.tokens_used
      tools(k) == UsageRow(u, ToolsResult(k * TOOL_TOKENS, k * TOOL_COST),
                            "openclaw_unified", day)
      chat(prompt) ==
        UsageRow(u, call_openai_mock(prompt, "gpt-3.5-turbo"), "/api/chat", day)
  IN CASE used = 0      -> << >>
       [] used % 10 = 0 /\ used > 0 -> << tools(used \div 10) >>
       [] used % 10 = 9 -> << tools(used \div 10), chat(SevenWords) >>
       [] used % 10 = 4 ->
            << tools((used - 14) \div 10), chat(SevenWords), chat(FourWords) >>

\* usage_logs of a database whose users table is table: the rows of the
\* account whose period began first come first.
HistoryLogs(table) ==
  LET rows(u) == IF u \in DOMAIN table THEN HistoryOf(u, table[u]) ELSE << >>
  IN IF /\ DOMAIN table = Accounts
        /\ table["u2"].tokens_reset_date < table["u1"].tokens_reset_date
     THEN rows("u2") \o rows("u1")
     ELSE rows("u1") \o rows("u2")

\* analytics_daily after the transactions that wrote logs: one upsert for
\* every row of a chat call, on the day of the row.
RECURSIVE HistoryDaily(_)
HistoryDaily(logs) ==
  IF logs = << >> THEN {}
  ELSE LET last == logs[Len(logs)]
           before == HistoryDaily(SubSeq(logs, 1, Len(logs) - 1))
       IN IF last.endpoint = "/api/chat"
          THEN UpsertDaily(before, last.timestamp, last.user_id, last)
          ELSE before

\* The users table after init_db has run on an empty database today: the demo
\* row alone.  And the table of a database that is in use: the demo account
\* holds the row of a period begun today without usage, beside a registered
\* "free" account whose usage is one below or at the ceiling and whose billing
\* period has passed or not.
InitUsers ==
  { [u \in {"u2"} |-> DemoRow(StartDay)] }
  \cup
  { [u \in Accounts |->
       IF u = "u1"
       THEN [subscription_tier |-> "free",
             tokens_included |-> SUBSCRIPTION_TIERS.free.tokens_per_month,
             tokens_used |-> used, tokens_reset_date |-> reset,
             is_active |-> TRUE]
       ELSE DemoRow(StartDay)] :
      used \in {SUBSCRIPTION_TIERS.free.tokens_per_month - 1,
                SUBSCRIPTION_TIERS.free.tokens_per_month},
      reset \in {StartDay - 1, StartDay} }

\* A window in which the address ip1 has already sent one request less than
\* the lowest limit, or as many as the lowest limit, under every limit; the
\* other address has sent none.
InitHits ==
  { [k \in LimitKeys |-> IF k[1] = "ip1" THEN sent ELSE 0] :
      sent \in {DEFAULT_RATE_LIMIT - 1, DEFAULT_RATE_LIMIT} }

\* A "free" account one token below, at or (after a call admitted one below)
\* four tokens above its ceiling and a "pro" account, both active and inside
\* a billing period begun today.
InitRateUsers ==
  { [u \in Accounts |->
       IF u = "u1"
       THEN [subscription_tier |-> "free",
             tokens_included |-> SUBSCRIPTION_TIERS.free.tokens_per_month,
             tokens_used |-> used, tokens_reset_date |-> StartDay + PERIOD_DAYS,
             is_active |-> TRUE]
       ELSE [subscription_tier |-> "pro",
             tokens_included |-> SUBSCRIPTION_TIERS.pro.tokens_per_month,
             tokens_used |-> 0, tokens_reset_date |-> StartDay + PERIOD_DAYS,
             is_active |-> TRUE]] :
      used \in {SUBSCRIPTION_TIERS.free.tokens_per_month - 1,
                SUBSCRIPTION_TIERS.free.tokens_per_month,
                SUBSCRIPTION_TIERS.free.tokens_per_month + 4} }

\* Two active accounts with usage: the "free" account one token below its
\* ceiling and the "starter" account far below, each inside its billing period
\* or past it.
InitBothUsers ==
  { [u \in Accounts |->
       IF u = "u1"
       THEN [subscription_tier |-> "free",
             tokens_included |-> SUBSCRIPTION_TIERS.free.tokens_per_month,
             tokens_used |-> SUBSCRIPTION_TIERS.free.tokens_per_month - 1,
             tokens_reset_date |-> reset1, is_active |-> TRUE]
       ELSE [subscription_tier |-> "starter",
             tokens_included |-> SUBSCRIPTION_TIERS.starter.tokens_per_month,
             tokens_used |-> 50,
             tokens_reset_date |-> reset2, is_active |-> TRUE]] :
      reset1 \in {StartDay - 1, StartDay},
      reset2 \in {StartDay - 1, StartDay + PERIOD_DAYS} }

InitBoth ==
  /\ users \in InitBothUsers
  /\ users0 = users
  /\ usage_logs = HistoryLogs(users)
  /\ analytics_daily = HistoryDaily(usage_logs)
  /\ now = StartDay
  /\ req = [r \in Reqs |-> IdleReq]
  /\ hits = NoHits
  /\ db_lock = NoWriter
  /\ webhook_events = {}
  /\ hook = NoHook

InitRate ==
  /\ users \in InitRateUsers
  /\ users0 = users
  /\ usage_logs = HistoryLogs(users)
  /\ analytics_daily = HistoryDaily(usage_logs)
  /\ now = StartDay
  /\ req = [r \in Reqs |-> IdleReq]
  /\ hits \in InitHits
  /\ db_lock = NoWriter
  /\ webhook_events = {}
  /\ hook = NoHook

Init ==
  /\ users \in InitUsers
  /\ users0 = users
  /\ usage_logs = HistoryLogs(users)
  /\ analytics_daily = HistoryDaily(usage_logs)
  /\ now = StartDay
  /\ req = [r \in Reqs |-> IdleReq]
  /\ hits = NoHits
  /\ db_lock = NoWriter
  /\ webhook_events = {}
  /\ hook = NoHook

\* The usage rows of table written since the start of the run.
Logged(table) == SubSeq(table, Len(HistoryLogs(users0)) + 1, Len(table))

(* ------------------------------ connections --------------------------- *)

\* An exception that no handler catches: flask answers 500.
ServerError(rq) ==
  [rq EXCEPT !.pc = "done", !.status = 500,
             !.body = [NoBody EXCEPT !.error = "Internal Server Error"]]

\* The first INSERT or UPDATE of the connection of request r.  sqlite gives
\* the write lock to one connection at a time, and keeps it there until that
\* connection commits or closes.  While another connection holds the lock the
\* statement waits; it raises OperationalError ("database is locked") when
\* the connection's timeout of 5 seconds passes first.  (The statement that
\* waits and then runs is the step taken after the lock has been released.)
BeginWrite(r, pc) ==
  IF db_lock = NoWriter
  THEN /\ db_lock' = WriterReq(r)
       /\ req' = [req EXCEPT ![r].pc = pc]
  ELSE /\ req' = [req EXCEPT ![r] = ServerError(@)]
       /\ UNCHANGED db_lock

\* The connection of a request whose statement raised inside its transaction
\* is neither closed nor rolled back by the handler: it keeps the write lock
\* until the interpreter frees it with the frame of the handler.
ConnectionCollected(r) ==
  /\ req[r].pc = "dropping"
  /\ req' = [req EXCEPT ![r].pc = "done"]
  /\ db_lock' = NoWriter
  /\ UNCHANGED <<users, usage_logs, analytics_daily, now, users0, hits,
               webhook_events, hook>>

(* ----------------------------- require_api_key ------------------------ *)

\* SELECT ... FROM users WHERE api_key = ?  (fetchone: the id, or none)
UserByApiKey(key) == { u \in DOMAIN users : ApiKeyOf(u) = key }

\* The decorator without the is_active test on the row.
AuthDenied_IgnoresActive(key) ==
  \/ key = ""
  \/ UserByApiKey(key) = {}

\* The two 401 exits of the decorator.
AuthDenied(key) ==
  \/ key = ""
  \/ UserByApiKey(key) = {}
  \/ \E u \in UserByApiKey(key) : ~users[u].is_active

\* datetime.now() > reset_date
PeriodExpired(reset_date) == now > reset_date

\* The reset branch without its last statement: the stale count is kept.
TokensUsedAfterReset_Kept(old) == old

\* request.tokens_used after the reset branch: user[3] = 0
TokensUsedAfterReset(old) == 0

\* The decorator up to the SELECT and the two checks on its row, which the
\* request holds from here on.
Authenticate(r, ep, key, addr) ==
  /\ req[r].pc = "idle"
  /\ IF r = 1 THEN TRUE ELSE req[r - 1].pc # "idle"
  /\ IF AuthDenied(key)
     THEN req' = [req EXCEPT ![r] =
            [@ EXCEPT !.pc = "done", !.api_key = key,
                      !.status = 401,
                      !.body = [NoBody EXCEPT !.error =
                                  IF key = "" THEN "API key required"
                                  ELSE "Invalid or inactive API key"]]]
     ELSE LET u == CHOOSE x \in UserByApiKey(key) : TRUE
              row == users[u]
          IN req' = [req EXCEPT ![r] =
               [@ EXCEPT !.pc = "selected",
                         !.addr = addr, !.endpoint = ep, !.api_key = key,
                         !.user_id = u,
                         !.tier = row.subscription_tier,
                         !.tokens_included = row.tokens_included,
                         !.tokens_used = row.tokens_used,
                         !.reset_date = row.tokens_reset_date]]
  /\ UNCHANGED <<users, usage_logs, analytics_daily, now, users0, hits, db_lock,
               webhook_events, hook>>

\* "Check if tokens need to be reset": the clock is compared with the
\* reset_date of the row the request holds.
ResetTest(r) ==
  /\ req[r].pc = "selected"
  /\ req' = [req EXCEPT ![r].pc = IF PeriodExpired(req[r].reset_date)
                                  THEN "reset" ELSE "handler"]
  /\ UNCHANGED <<users, usage_logs, analytics_daily, now, users0, hits, db_lock,
               webhook_events, hook>>

\* The reset branch opens its connection and computes new_reset_date from the
\* clock.
NewResetDate(r) ==
  /\ req[r].pc = "reset"
  /\ req' = [req EXCEPT ![r].pc = "update",
                        ![r].reset_date = now + PERIOD_DAYS]
  /\ UNCHANGED <<users, usage_logs, analytics_daily, now, users0, hits, db_lock,
               webhook_events, hook>>

\* The reset branch executes its UPDATE.
ResetUpdate(r) ==
  /\ req[r].pc = "update"
  /\ BeginWrite(r, "resetting")
  /\ UNCHANGED <<users, usage_logs, analytics_daily, now, users0, hits,
               webhook_events, hook>>

\* The reset UPDATE without its WHERE clause: every row is reset.
ResetPeriod_NoWhere(r) ==
  /\ req[r].pc = "resetting"
  /\ users' = [u \in DOMAIN users |->
                 [users[u] EXCEPT !.tokens_used = 0,
                                  !.tokens_reset_date = req[r].reset_date]]
  /\ req' = [req EXCEPT ![r].pc = "handler",
                        ![r].tokens_used = TokensUsedAfterReset(@)]
  /\ db_lock' = NoWriter
  /\ UNCHANGED <<usage_logs, analytics_daily, now, users0, hits,
               webhook_events, hook>>

\* The reset branch commits its UPDATE (the row of the request's key gets
\* tokens_used = 0 and the new period end) and closes; then user[3] = 0.
ResetPeriod(r) ==
  /\ req[r].pc = "resetting"
  /\ users' = [u \in DOMAIN users |->
                 IF ApiKeyOf(u) = req[r].api_key
                 THEN [users[u] EXCEPT !.tokens_used = 0,
                                       !.tokens_reset_date = req[r].reset_date]
                 ELSE users[u]]
  /\ req' = [req EXCEPT ![r].pc = "handler",
                        ![r].tokens_used = TokensUsedAfterReset(@)]
  /\ db_lock' = NoWriter
  /\ UNCHANGED <<usage_logs, analytics_daily, now, users0, hits,
               webhook_events, hook>>

(* ----------------------------- require_login ------------------------- *)

\* generate_jwt: the token expires 24 hours after it is issued.
generate_jwt(user_id) == [user_id |-> user_id, exp |-> now + 1, key |-> JWT_SECRET_KEY]

\* verify_jwt: the user id, or "" (None) on InvalidTokenError (the signature
\* does not verify) and on ExpiredSignatureError.
verify_jwt(token) ==
  IF token.key # JWT_SECRET_KEY THEN ""
  ELSE IF token.exp <= now THEN ""
  ELSE token.user_id

\* redirect(url_for('login')), leaving the session as given.
RedirectToLogin(session) ==
  [status |-> 302, location |-> "/auth/login", rendered |-> "", session |-> session]

\* render_template
Render(template, session) ==
  [status |-> 200, location |-> "", rendered |-> template, session |-> session]

\* The decorator, and the view it wraps.
require_login(page, token) ==
  IF token = NoToken THEN RedirectToLogin(token)
  ELSE IF verify_jwt(token) = "" THEN RedirectToLogin(NoToken)
  ELSE Render(page, token)

\* The view of "/", which carries the decorator's checks inline.
dashboard(token) ==
  IF token = NoToken THEN RedirectToLogin(token)
  ELSE IF verify_jwt(token) = "" THEN RedirectToLogin(NoToken)
  ELSE Render("/", token)

\* The view of "/admin": "Simple admin check".
admin(token) ==
  IF token = NoToken THEN RedirectToLogin(token)
  ELSE Render("/admin", token)

\* A GET of a page by a browser whose session cookie holds token.
PageRequest(r, page, token) ==
  /\ req[r].pc = "idle"
  /\ IF r = 1 THEN TRUE ELSE req[r - 1].pc # "idle"
  /\ LET out == CASE page = "/admin" -> admin(token)
                  [] page = "/"      -> dashboard(token)
                  [] OTHER           -> require_login(page, token)
     IN req' = [req EXCEPT ![r] =
          [@ EXCEPT !.pc = "done", !.endpoint = page, !.session = token,
                    !.session_after = out.session, !.status = out.status,
                    !.location = out.location, !.rendered = out.rendered]]
  /\ UNCHANGED <<users, usage_logs, analytics_daily, now, users0, hits, db_lock,
               webhook_events, hook>>

(* ------------------------------- register ----------------------------- *)

\* What a POST to /auth/register carries: request.get_json() or request.form.
RegisterForms ==
  { [email |-> e, password |-> p, is_json |-> j] :
      e \in {"", "u1@example.com", " U1@Example.com ", "demo@example.com"},
      p \in {"", "pw"},
      j \in BOOLEAN }

\* email.lower().strip(), for the emails of RegisterForms.
LowerStrip(email) ==
  IF email = " U1@Example.com " THEN "u1@example.com" ELSE email

\* SELECT id FROM users WHERE email = ?
UserByEmail(email) == { u \in DOMAIN users : EmailOf(u) = email }

\* The answer to a form that is not accepted: the JSON error with 400, or the
\* flashed message on the registration page.
RegisterRefused(rq, data, message) ==
  [rq EXCEPT !.pc = "done", !.endpoint = "/auth/register",
             !.status = IF data.is_json THEN 400 ELSE 200,
             !.rendered = IF data.is_json THEN "" ELSE "auth/register.html",
             !.body = [NoBody EXCEPT !.error = message]]

\* POST /auth/register up to "Create user": the checks on the form and the
\* SELECT.
register(r, data) ==
  /\ req[r].pc = "idle"
  /\ IF r = 1 THEN TRUE ELSE req[r - 1].pc # "idle"
  /\ LET email == LowerStrip(data.email)
     IN req' = [req EXCEPT ![r] =
          IF email = "" \/ data.password = ""
          THEN RegisterRefused(@, data, "Email and password required")
          ELSE IF UserByEmail(email) # {}
          THEN RegisterRefused(@, data, "Email already registered")
          ELSE [@ EXCEPT !.pc = "reg_create", !.endpoint = "/auth/register",
                         !.email = email, !.is_json = data.is_json]]
  /\ UNCHANGED <<users, usage_logs, analytics_daily, now, users0, hits, db_lock,
               webhook_events, hook>>

\* "Create user": the values of the new row; reset_date is read from the
\* clock.
RegisterCreate(r) ==
  /\ req[r].pc = "reg_create"
  /\ req' = [req EXCEPT ![r].pc = "reg_insert",
                        ![r].reset_date = now + PERIOD_DAYS]
  /\ UNCHANGED <<users, usage_logs, analytics_daily, now, users0, hits, db_lock,
               webhook_events, hook>>

\* The INSERT is executed: it takes the write lock, and raises IntegrityError
\* (UNIQUE constraint failed: users.email) when a row with the email has been
\* committed since the SELECT; flask answers 500, and the connection stays
\* open inside its transaction.
RegisterInsert(r) ==
  /\ req[r].pc = "reg_insert"
  /\ IF db_lock = NoWriter /\ UserByEmail(req[r].email) # {}
     THEN /\ req' = [req EXCEPT ![r] = [ServerError(@) EXCEPT !.pc = "dropping"]]
          /\ db_lock' = WriterReq(r)
     ELSE BeginWrite(r, "reg_commit")
  /\ UNCHANGED <<users, usage_logs, analytics_daily, now, users0, hits,
               webhook_events, hook>>

\* conn.commit(): the row is in the table.  A JSON client is answered 201 with
\* the api_key; a browser goes on to the automatic login.
RegisterCommit(r) ==
  /\ req[r].pc = "reg_commit"
  /\ LET u == CHOOSE x \in Accounts : EmailOf(x) = req[r].email
         row == [x \in {u} |-> NewRow(req[r].reset_date)]
     IN /\ users' = users @@ row
        /\ users0' = users0 @@ row
        /\ req' = [req EXCEPT ![r] =
             IF @.is_json
             THEN [@ EXCEPT !.pc = "done", !.status = 201,
                            !.body = [NoBody EXCEPT !.api_key = ApiKeyOf(u)]]
             ELSE [@ EXCEPT !.pc = "reg_login"]]
  /\ db_lock' = NoWriter
  /\ UNCHANGED <<usage_logs, analytics_daily, now, hits,
               webhook_events, hook>>

\* "Auto-login after registration": the token is issued and put into the
\* session, and the browser is sent to the dashboard.
RegisterLogin(r) ==
  /\ req[r].pc = "reg_login"
  /\ LET u == CHOOSE x \in Accounts : EmailOf(x) = req[r].email
     IN req' = [req EXCEPT ![r] =
          [@ EXCEPT !.pc = "done", !.status = 302, !.location = "/",
                    !.session_after = generate_jwt(u)]]
  /\ UNCHANGED <<users, usage_logs, analytics_daily, now, users0, hits, db_lock,
               webhook_events, hook>>

\* An account is put on a custom plan that includes no tokens.
CustomPlan(u) ==
  /\ u \in DOMAIN users
  /\ users[u].subscription_tier # "custom"
  /\ db_lock = NoWriter
  /\ users' = [users EXCEPT ![u].subscription_tier = "custom",
                            ![u].tokens_included = 0]
  /\ UNCHANGED <<usage_logs, analytics_daily, now, req, users0, hits, db_lock,
               webhook_events, hook>>

\* An account is switched off: is_active = FALSE is stored for its row.
Deactivate(u) ==
  /\ u \in DOMAIN users
  /\ users[u].is_active
  /\ db_lock = NoWriter
  /\ users' = [users EXCEPT ![u].is_active = FALSE]
  /\ UNCHANGED <<usage_logs, analytics_daily, now, req, users0, hits, db_lock,
               webhook_events, hook>>

(* ------------------------------- limiter ------------------------------ *)

\* The threshold looked up from the tier the request held when it was
\* authenticated, instead of the tier stored now.
get_rate_limit_Snapshot(api_key, tier) ==
  IF api_key = "" \/ UserByApiKey(api_key) = {} THEN DEFAULT_RATE_LIMIT
  ELSE IF tier \in DOMAIN SUBSCRIPTION_TIERS
       THEN SUBSCRIPTION_TIERS[tier].rate_limit
       ELSE DEFAULT_RATE_LIMIT

\* get_rate_limit(): the requests per hour of the tier stored for the key.
\* (tier is the request's snapshot, which get_rate_limit does not read.)
get_rate_limit(api_key, tier) ==
  IF api_key = "" \/ UserByApiKey(api_key) = {} THEN DEFAULT_RATE_LIMIT
  ELSE LET stored == users[CHOOSE u \in UserByApiKey(api_key) : TRUE].subscription_tier
       IN IF stored \in DOMAIN SUBSCRIPTION_TIERS
          THEN SUBSCRIPTION_TIERS[stored].rate_limit
          ELSE DEFAULT_RATE_LIMIT

\* limiter.hit: the window's counter is incremented for every request.
Hit(table, key, amount) == [table EXCEPT ![key] = @ + 1]

\* The limiter letting every request through.
RateLimited_Never(table, key, amount) == FALSE

\* The request is refused when the incremented counter exceeds the amount.
RateLimited(table, key, amount) == Hit(table, key, amount)[key] > amount

\* RateLimitExceeded: 429 Too Many Requests; the view function is not run.
Refused(rq) ==
  [rq EXCEPT !.pc = "done", !.status = 429,
             !.body = [NoBody EXCEPT !.error = "Too Many Requests"]]

\* limiter.limit(get_rate_limit) resolves the limit of a chat request: the
\* callable opens its own connection, SELECTs the tier and closes.
LookupRateLimit(r) ==
  /\ req[r].pc = "handler"
  /\ req[r].endpoint = "/api/chat"
  /\ req' = [req EXCEPT ![r].pc = "hit",
                        ![r].rate_limit = get_rate_limit(req[r].api_key, req[r].tier)]
  /\ UNCHANGED <<users, usage_logs, analytics_daily, now, users0, hits, db_lock,
               webhook_events, hook>>

\* The request stands before the limiter's counter: a chat request with its
\* limit resolved, a request to /api/openclaw as the decorator hands it on.
AtLimiter(rq) ==
  \/ rq.endpoint = "/api/chat" /\ rq.pc = "hit"
  \/ rq.endpoint = "/api/openclaw" /\ rq.pc = "handler"

\* The limit the request is counted under: the resolved one, or the fixed
\* "100 per hour" of /api/openclaw.
LimitOf(rq) ==
  IF rq.endpoint = "/api/chat" THEN rq.rate_limit ELSE OPENCLAW_RATE_LIMIT

\* The limiter counts the request and tests the counter; the view function
\* runs afterwards, unless the request is refused.
LimiterHit(r) ==
  /\ AtLimiter(req[r])
  /\ LET amount == LimitOf(req[r])
         key == <<req[r].addr, req[r].endpoint, amount>>
     IN /\ hits' = Hit(hits, key, amount)
        /\ req' = [req EXCEPT ![r] =
             IF RateLimited(hits, key, amount)
             THEN Refused(@)
             ELSE [@ EXCEPT !.pc = "body"]]
  /\ UNCHANGED <<users, usage_logs, analytics_daily, now, users0, db_lock,
               webhook_events, hook>>

(* --------------------------------- chat ------------------------------- *)

\* The quota check with a strict comparison.
QuotaExceeded_Strict(tokens_used, tokens_included) == tokens_used > tokens_included

\* request.tokens_used >= request.tokens_included
QuotaExceeded(tokens_used, tokens_included) == tokens_used >= tokens_included

\* The debit storing the call's tokens instead of adding them.
NewUsage_Overwrite(request_tokens_used, stored_tokens_used, tokens) == tokens

\* new_usage = request.tokens_used + result['tokens']
NewUsage(request_tokens_used, stored_tokens_used, tokens) ==
  request_tokens_used + tokens

\* data.get(key, default)
DataGet(data, key, default) == IF key \in DOMAIN data THEN data[key] ELSE default

\* The handler testing the quota before the prompt.
ChatAdmit_QuotaFirst(r, data) ==
  /\ req[r].pc = "body"
  /\ req[r].endpoint = "/api/chat"
  /\ LET prompt == DataGet(data, "prompt", EmptyPrompt)
         model == DataGet(data, "model", "auto")
         provider == DataGet(data, "provider", "auto")
     IN req' = [req EXCEPT ![r] =
          IF QuotaExceeded(@.tokens_used, @.tokens_included)
          THEN [@ EXCEPT !.pc = "done", !.prompt = prompt, !.status = 429,
                         !.body = [NoBody EXCEPT !.error = "quota_exceeded"]]
          ELSE IF prompt = EmptyPrompt
          THEN [@ EXCEPT !.pc = "done", !.status = 400,
                         !.body = [NoBody EXCEPT !.error = "Prompt required"]]
          ELSE [@ EXCEPT !.pc = "calling", !.prompt = prompt,
                         !.model = model, !.provider = provider,
                         !.route = Route(model, provider)]]
  /\ UNCHANGED <<users, usage_logs, analytics_daily, now, users0, hits, db_lock,
               webhook_events, hook>>

\* The view function up to the provider call: the body check, the quota check
\* on the request's attributes and the routing decision.
ChatAdmit(r, data) ==
  /\ req[r].pc = "body"
  /\ req[r].endpoint = "/api/chat"
  /\ LET prompt == DataGet(data, "prompt", EmptyPrompt)
         model == DataGet(data, "model", "auto")
         provider == DataGet(data, "provider", "auto")
     IN req' = [req EXCEPT ![r] =
          IF prompt = EmptyPrompt
          THEN [@ EXCEPT !.pc = "done", !.status = 400,
                         !.body = [NoBody EXCEPT !.error = "Prompt required"]]
          ELSE IF QuotaExceeded(@.tokens_used, @.tokens_included)
          THEN [@ EXCEPT !.pc = "done", !.prompt = prompt, !.status = 429,
                         !.body = [NoBody EXCEPT !.error = "quota_exceeded"]]
          ELSE [@ EXCEPT !.pc = "calling", !.prompt = prompt,
                         !.model = model, !.provider = provider,
                         !.route = Route(model, provider)]]
  /\ UNCHANGED <<users, usage_logs, analytics_daily, now, users0, hits, db_lock,
               webhook_events, hook>>

\* The upstream call returns: live, or the mock of the same provider.  The
\* handler opens its connection and reads the clock for the timestamp of the
\* usage row, the last of the INSERT's parameters.  (Nothing that another
\* request could see happens between the return of the call and that reading.)
ProviderReturn(r, up) ==
  /\ req[r].pc = "calling"
  /\ req' = [req EXCEPT ![r].pc = "log",
                        ![r].result = CallProvider(req[r].route, req[r].prompt, up),
                        ![r].timestamp = now]
  /\ UNCHANGED <<users, usage_logs, analytics_daily, now, users0, hits, db_lock,
               webhook_events, hook>>

\* gunicorn --timeout 120: the worker blocked in the upstream call is killed.
\* Neither adapter passes a timeout to its client, so a silent upstream keeps
\* the worker blocked past that limit.  The request gets no result and no
\* response.
WorkerTimeout(r) ==
  /\ req[r].pc = "calling"
  /\ req' = [req EXCEPT ![r].pc = "killed"]
  /\ UNCHANGED <<users, usage_logs, analytics_daily, now, users0, hits, db_lock,
               webhook_events, hook>>

\* "Log usage": the INSERT into usage_logs is executed.  When it raises, the
\* exception is not caught: nothing of the transaction is stored, and the
\* call's result is dropped with the request.
ChatInsert(r) ==
  /\ req[r].pc = "log"
  /\ BeginWrite(r, "logged")
  /\ UNCHANGED <<users, usage_logs, analytics_daily, now, users0, hits,
               webhook_events, hook>>

\* The UPDATE of users is executed, and today is read from the clock for the
\* upsert of the day's aggregate.
ChatToday(r) ==
  /\ req[r].pc = "logged"
  /\ req' = [req EXCEPT ![r].pc = "commit", ![r].today = now]
  /\ UNCHANGED <<users, usage_logs, analytics_daily, now, users0, hits, db_lock,
               webhook_events, hook>>

\* "Log usage" without the UPDATE of users: the record and the aggregate are
\* written, the debit is not.
ChatLog_NoDebit(r) ==
  /\ req[r].pc = "commit"
  /\ usage_logs' = InsertUsage(usage_logs,
                     UsageRow(req[r].user_id, req[r].result, "/api/chat",
                              req[r].timestamp))
  /\ analytics_daily' =
       UpsertDaily(analytics_daily, req[r].today, req[r].user_id, req[r].result)
  /\ req' = [req EXCEPT ![r].pc = "respond", ![r].committed = TRUE]
  /\ db_lock' = NoWriter
  /\ UNCHANGED <<users, now, users0, hits, webhook_events, hook>>

\* "Log usage" after the reading of today: the upsert of the day's aggregate
\* and the commit of the three statements (the usage row, the debit and the
\* aggregate of the day that was read).
ChatLog(r) ==
  /\ req[r].pc = "commit"
  /\ usage_logs' = InsertUsage(usage_logs,
                     UsageRow(req[r].user_id, req[r].result, "/api/chat",
                              req[r].timestamp))
  /\ users' = [users EXCEPT ![req[r].user_id].tokens_used =
                 NewUsage(req[r].tokens_used, @, req[r].result.tokens)]
  /\ analytics_daily' =
       UpsertDaily(analytics_daily, req[r].today, req[r].user_id, req[r].result)
  /\ req' = [req EXCEPT ![r].pc = "respond", ![r].committed = TRUE]
  /\ db_lock' = NoWriter
  /\ UNCHANGED <<now, users0, hits, webhook_events, hook>>

\* The remaining quota without the lower bound.
RemainingQuota_Unclamped(tokens_included, new_usage) == tokens_included - new_usage

\* max(0, request.tokens_included - new_usage)
RemainingQuota(tokens_included, new_usage) ==
  IF tokens_included - new_usage > 0 THEN tokens_included - new_usage ELSE 0

\* min(100, (new_usage / request.tokens_included) * 100), for a divisor that is
\* not 0.
QuotaPercentage(new_usage, tokens_included) ==
  IF (tokens_included > 0 /\ new_usage >= tokens_included)
     \/ (tokens_included < 0 /\ new_usage <= tokens_included)
  THEN [num |-> 100, den |-> 1]
  ELSE [num |-> new_usage * 100, den |-> tokens_included]

\* return jsonify({...}); the division raises ZeroDivisionError when
\* request.tokens_included is 0, which flask answers with 500.
ChatRespond(r) ==
  /\ req[r].pc = "respond"
  /\ LET new_usage == NewUsage(req[r].tokens_used, 0, req[r].result.tokens)
     IN req' = [req EXCEPT ![r] =
          IF @.tokens_included = 0
          THEN ServerError(@)
          ELSE [@ EXCEPT !.pc = "done", !.status = 200,
                  !.body = [NoBody EXCEPT
                      !.tokens_used = req[r].result.tokens,
                      !.total_tokens_used = new_usage,
                      !.remaining_quota =
                         RemainingQuota(req[r].tokens_included, new_usage),
                      !.quota_percentage =
                         QuotaPercentage(new_usage, req[r].tokens_included)]]]
  /\ UNCHANGED <<users, usage_logs, analytics_daily, now, users0, hits, db_lock,
               webhook_events, hook>>

(* --------------------------- openclaw_unified ------------------------- *)

\* The "tools" arrays: each entry names a tool or carries no tool name ("").
RECURSIVE ToolArrays(_)
ToolArrays(n) ==
  IF n = 0 THEN { << >> }
  ELSE ToolArrays(n - 1) \cup
       { Append(t, x) : t \in { s \in ToolArrays(n - 1) : Len(s) = n - 1 },
                        x \in {"web_search", ""} }

\* The bodies posted to /api/openclaw: without a "tools" key, or with one.
OpenclawBodies ==
  { [has_tools |-> FALSE, tools |-> << >>] } \cup
  { [has_tools |-> TRUE, tools |-> t] : t \in ToolArrays(MaxTools) }

\* The bodies whose array is shorter than the longest: what interleaved
\* requests post in the specifications that are not about the loop over the
\* tools.
ShortBodies == { data \in OpenclawBodies : Len(data.tools) < MaxTools }

\* The bodies with one entry at most: what the requests post that are served
\* one at a time.
OneToolBodies == { data \in OpenclawBodies : Len(data.tools) <= 1 }

\* UPDATE users SET tokens_used = tokens_used + ?
AddUsage(stored_tokens_used, total_tokens) == stored_tokens_used + total_tokens

\* The view function up to "Log usage": the body check and the loop over the
\* tools; then the handler opens its connection and reads the clock for the
\* timestamp of the usage row.
openclaw_unified(r, data) ==
  /\ req[r].pc = "body"
  /\ req[r].endpoint = "/api/openclaw"
  /\ req' = [req EXCEPT ![r] =
       IF ~data.has_tools
       THEN [@ EXCEPT !.pc = "done", !.status = 400,
                      !.body = [NoBody EXCEPT !.error = "Tools array required"]]
       ELSE LET loop == ToolLoop(data.tools)
            IN [@ EXCEPT !.pc = "oc_log",
                         !.result = ToolsResult(loop.total_tokens, loop.total_cost),
                         !.timestamp = now,
                         !.body = [NoBody EXCEPT !.results = Len(loop.results),
                                     !.tokens_used = loop.total_tokens]]]
  /\ UNCHANGED <<users, usage_logs, analytics_daily, now, users0, hits, db_lock,
               webhook_events, hook>>

\* "Log usage": the INSERT into usage_logs is executed.
OpenclawInsert(r) ==
  /\ req[r].pc = "oc_log"
  /\ BeginWrite(r, "oc_commit")
  /\ UNCHANGED <<users, usage_logs, analytics_daily, now, users0, hits,
               webhook_events, hook>>

\* "Log usage" after its INSERT: the UPDATE of users and the commit of the
\* two statements; then the 200 with the results.
OpenclawCommit(r) ==
  /\ req[r].pc = "oc_commit"
  /\ usage_logs' = InsertUsage(usage_logs,
                     UsageRow(req[r].user_id, req[r].result, "openclaw_unified",
                              req[r].timestamp))
  /\ users' = [users EXCEPT ![req[r].user_id].tokens_used =
                 AddUsage(@, req[r].result.tokens)]
  /\ req' = [req EXCEPT ![r].pc = "done", ![r].status = 200,
                        ![r].committed = TRUE]
  /\ db_lock' = NoWriter
  /\ UNCHANGED <<analytics_daily, now, users0, hits,
               webhook_events, hook>>

(* ----------------------------- stripe_webhook ------------------------- *)

\* "Map price_id to tier": the tiers whose stripe_price_id is the event's.
TierOfPrice(price_id) ==
  { t \in DOMAIN SUBSCRIPTION_TIERS :
      SUBSCRIPTION_TIERS[t].stripe_price_id = price_id }

\* The ids of the events stripe delivers; an event is delivered again until
\* it is answered 200.
EventIds == {"evt_1"}

\* What stripe posts to /webhook/stripe: a body whose signature does not
\* verify, or an event with its id and type; a checkout.session.completed
\* event names the account (client_reference_id) and, through its
\* subscription, a price.
Deliveries ==
  { [valid |-> FALSE, id |-> "", type |-> "", user_id |-> "", price_id |-> ""] }
  \cup { [valid |-> TRUE, id |-> id, type |-> "invoice.paid",
          user_id |-> "", price_id |-> ""] : id \in EventIds }
  \cup { [valid |-> TRUE, id |-> id, type |-> "checkout.session.completed",
          user_id |-> u, price_id |-> price_id] :
            id \in EventIds, u \in Accounts, price_id \in EventPriceIds }

\* The request arrives: 400 for a signature that does not verify; for a
\* checkout.session.completed event whose price maps to a tier the UPDATE of
\* the account is next, for every other event the INSERT into webhook_events.
stripe_webhook(post) ==
  /\ hook.pc = "idle"
  /\ hook' =
       IF ~post.valid THEN [NoHook EXCEPT !.status = 400]
       ELSE IF /\ post.type = "checkout.session.completed"
               /\ TierOfPrice(post.price_id) # {}
       THEN [pc |-> "update", id |-> post.id, user_id |-> post.user_id,
             tier |-> CHOOSE t \in TierOfPrice(post.price_id) : TRUE,
             status |-> 0]
       ELSE [pc |-> "event", id |-> post.id, user_id |-> "", tier |-> "",
             status |-> 0]
  /\ UNCHANGED <<users, usage_logs, analytics_daily, now, req, users0, hits,
                 db_lock, webhook_events>>

\* The UPDATE of users is executed: it takes the write lock, or raises
\* OperationalError when the database stays locked, which flask answers 500.
StripeUpdate ==
  /\ hook.pc = "update"
  /\ IF db_lock = NoWriter
     THEN /\ db_lock' = WriterWebhook
          /\ hook' = [hook EXCEPT !.pc = "updating"]
     ELSE /\ hook' = [NoHook EXCEPT !.status = 500]
          /\ UNCHANGED db_lock
  /\ UNCHANGED <<users, usage_logs, analytics_daily, now, req, users0, hits,
                 webhook_events>>

\* The plan change also starting the account's usage again from 0.
StripeCommit_ResetsUsage ==
  /\ hook.pc = "updating"
  /\ LET u == hook.user_id
         tier == hook.tier
     IN users' = IF u \notin DOMAIN users THEN users
                 ELSE [users EXCEPT ![u].subscription_tier = tier,
                                    ![u].tokens_included =
                                       SUBSCRIPTION_TIERS[tier].tokens_per_month,
                                    ![u].tokens_used = 0]
  /\ db_lock' = NoWriter
  /\ hook' = [hook EXCEPT !.pc = "event", !.user_id = "", !.tier = ""]
  /\ UNCHANGED <<usage_logs, analytics_daily, now, req, users0, hits,
                 webhook_events>>

\* The event's UPDATE is committed: the row WHERE id = client_reference_id,
\* if there is one, holds the tier and its tokens_per_month.
StripeCommit ==
  /\ hook.pc = "updating"
  /\ LET u == hook.user_id
         tier == hook.tier
     IN users' = IF u \notin DOMAIN users THEN users
                 ELSE [users EXCEPT ![u].subscription_tier = tier,
                                    ![u].tokens_included =
                                       SUBSCRIPTION_TIERS[tier].tokens_per_month]
  /\ db_lock' = NoWriter
  /\ hook' = [hook EXCEPT !.pc = "event", !.user_id = "", !.tier = ""]
  /\ UNCHANGED <<usage_logs, analytics_daily, now, req, users0, hits,
                 webhook_events>>

\* "Log webhook event": the INSERT into webhook_events is executed on a new
\* connection.  It raises OperationalError when the database stays locked,
\* and IntegrityError (UNIQUE constraint failed: webhook_events.id) for an
\* event id the table holds already; the connection of the latter stays open
\* inside its transaction.  Either is answered 500.
WebhookEventInsert ==
  /\ hook.pc = "event"
  /\ IF db_lock # NoWriter
     THEN /\ hook' = [NoHook EXCEPT !.status = 500]
          /\ UNCHANGED db_lock
     ELSE /\ db_lock' = WriterWebhook
          /\ hook' = IF hook.id \in webhook_events
                     THEN [hook EXCEPT !.pc = "dropping", !.status = 500]
                     ELSE [hook EXCEPT !.pc = "logging"]
  /\ UNCHANGED <<users, usage_logs, analytics_daily, now, req, users0, hits,
                 webhook_events>>

\* The INSERT is committed and the event answered 200.
WebhookEventCommit ==
  /\ hook.pc = "logging"
  /\ webhook_events' = webhook_events \cup {hook.id}
  /\ db_lock' = NoWriter
  /\ hook' = [NoHook EXCEPT !.status = 200]
  /\ UNCHANGED <<users, usage_logs, analytics_daily, now, req, users0, hits>>

\* The connection left open by the IntegrityError is freed with the frame of
\* the handler.
WebhookConnectionCollected ==
  /\ hook.pc = "dropping"
  /\ db_lock' = NoWriter
  /\ hook' = [NoHook EXCEPT !.status = 500]
  /\ UNCHANGED <<users, usage_logs, analytics_daily, now, req, users0, hits,
                 webhook_events>>

(* -------------------------------- clock ------------------------------- *)

Tick ==
  /\ now < StartDay + MaxTicks
  /\ now' = now + 1
  /\ UNCHANGED <<users, usage_logs, analytics_daily, req, users0, hits, db_lock,
               webhook_events, hook>>

\* The hourly windows of the limiter end: its counters start again from 0.
\* (The clock counts days, so the end of an hour is an event of its own.)
WindowExpires ==
  /\ hits # NoHits
  /\ hits' = NoHits
  /\ UNCHANGED <<users, usage_logs, analytics_daily, now, req, users0, db_lock,
               webhook_events, hook>>

(* --------------------------- specifications --------------------------- *)

Endpoints == {"/api/chat", "/api/openclaw"}

\* The request slots of the specifications of two requests: a request and
\* one before it, or beside it.
RateReqs == {1, 2}

Next ==
  \/ \E r \in Reqs, data \in RegisterForms : register(r, data)
  \/ \E r \in Reqs : RegisterCreate(r)
  \/ \E r \in Reqs : RegisterInsert(r)
  \/ \E r \in Reqs : RegisterCommit(r)
  \/ \E r \in Reqs : RegisterLogin(r)
  \/ \E r \in Reqs : ConnectionCollected(r)
  \/ \E r \in Reqs, ep \in Endpoints, key \in Credentials :
        Authenticate(r, ep, key, "ip1")
  \/ \E r \in Reqs : ResetTest(r)
  \/ \E r \in Reqs : NewResetDate(r)
  \/ \E r \in Reqs : ResetUpdate(r)
  \/ \E r \in Reqs : ResetPeriod(r)
  \/ \E r \in Reqs : LookupRateLimit(r)
  \/ \E r \in Reqs : LimiterHit(r)
  \/ \E r \in Reqs, data \in ChatBodies : ChatAdmit(r, data)
  \/ \E r \in Reqs, up \in Upstreams : ProviderReturn(r, up)
  \/ \E r \in Reqs : ChatInsert(r)
  \/ \E r \in Reqs : ChatToday(r)
  \/ \E r \in Reqs : ChatLog(r)
  \/ \E r \in Reqs : ChatRespond(r)
  \/ \E r \in Reqs, data \in ShortBodies : openclaw_unified(r, data)
  \/ \E r \in Reqs : OpenclawInsert(r)
  \/ \E r \in Reqs : OpenclawCommit(r)
  \/ Tick

\* Registrations and requests to the two API-key endpoints from one address,
\* interleaved step by step, and the clock.  The limiter counts them in one
\* window: with at most MaxReqs requests no counter comes near a threshold, so
\* an expiring window would change nothing but the counters.
Spec == Init /\ [][Next]_vars

\* The same requests served one at a time: a request arrives only when no
\* other request is in flight.
NoneInFlight == \A q \in Reqs : req[q].pc \in {"idle", "done"}

NextSeq ==
  \/ \E r \in Reqs, ep \in Endpoints, key \in Credentials :
        NoneInFlight /\ Authenticate(r, ep, key, "ip1")
  \/ \E r \in Reqs : ResetTest(r)
  \/ \E r \in Reqs : NewResetDate(r)
  \/ \E r \in Reqs : ResetUpdate(r)
  \/ \E r \in Reqs : ResetPeriod(r)
  \/ \E r \in Reqs : LookupRateLimit(r)
  \/ \E r \in Reqs : LimiterHit(r)
  \/ \E r \in Reqs, data \in ChatBodies : ChatAdmit(r, data)
  \/ \E r \in Reqs, up \in Upstreams : ProviderReturn(r, up)
  \/ \E r \in Reqs : ChatInsert(r)
  \/ \E r \in Reqs : ChatToday(r)
  \/ \E r \in Reqs : ChatLog(r)
  \/ \E r \in Reqs : ChatRespond(r)
  \/ \E r \in Reqs, data \in OneToolBodies : openclaw_unified(r, data)
  \/ \E r \in Reqs : OpenclawInsert(r)
  \/ \E r \in Reqs : OpenclawCommit(r)
  \/ Tick

SpecSeq == Init /\ [][NextSeq]_vars

\* Requests served one at a time while the registered account is put on a
\* custom plan without included tokens.
NextZero ==
  \/ NextSeq
  \/ CustomPlan("u1")

SpecZero == Init /\ [][NextZero]_vars

\* Two registrations or requests to /api/chat, interleaved step by step, and
\* the clock.
NextChat ==
  \/ \E r \in RateReqs, data \in RegisterForms : register(r, data)
  \/ \E r \in RateReqs : RegisterCreate(r)
  \/ \E r \in RateReqs : RegisterInsert(r)
  \/ \E r \in RateReqs : RegisterCommit(r)
  \/ \E r \in RateReqs : RegisterLogin(r)
  \/ \E r \in RateReqs : ConnectionCollected(r)
  \/ \E r \in RateReqs, key \in Credentials : Authenticate(r, "/api/chat", key, "ip1")
  \/ \E r \in RateReqs : ResetTest(r)
  \/ \E r \in RateReqs : NewResetDate(r)
  \/ \E r \in RateReqs : ResetUpdate(r)
  \/ \E r \in RateReqs : ResetPeriod(r)
  \/ \E r \in RateReqs : LookupRateLimit(r)
  \/ \E r \in RateReqs : LimiterHit(r)
  \/ \E r \in RateReqs, data \in ChatBodies : ChatAdmit(r, data)
  \/ \E r \in RateReqs, up \in Upstreams : ProviderReturn(r, up)
  \/ \E r \in RateReqs : ChatInsert(r)
  \/ \E r \in RateReqs : ChatToday(r)
  \/ \E r \in RateReqs : ChatLog(r)
  \/ \E r \in RateReqs : ChatRespond(r)
  \/ Tick

SpecChat == Init /\ [][NextChat]_vars

\* Two requests to /api/openclaw, interleaved step by step, and the clock.
NextTools ==
  \/ \E r \in RateReqs, key \in Credentials : Authenticate(r, "/api/openclaw", key, "ip1")
  \/ \E r \in RateReqs : ResetTest(r)
  \/ \E r \in RateReqs : NewResetDate(r)
  \/ \E r \in RateReqs : ResetUpdate(r)
  \/ \E r \in RateReqs : ResetPeriod(r)
  \/ \E r \in RateReqs : LimiterHit(r)
  \/ \E r \in RateReqs, data \in OpenclawBodies : openclaw_unified(r, data)
  \/ \E r \in RateReqs : OpenclawInsert(r)
  \/ \E r \in RateReqs : OpenclawCommit(r)
  \/ Tick

SpecTools == Init /\ [][NextTools]_vars

\* Requests served one at a time while the demo account is switched off.
NextAuth ==
  \/ NextSeq
  \/ Deactivate("u2")

SpecAuth == Init /\ [][NextAuth]_vars

\* One chat request posting every (model, provider) pair.
NextRoute ==
  \/ \E key \in Credentials : Authenticate(1, "/api/chat", key, "ip1")
  \/ ResetTest(1)
  \/ NewResetDate(1)
  \/ ResetUpdate(1)
  \/ ResetPeriod(1)
  \/ LookupRateLimit(1)
  \/ LimiterHit(1)
  \/ \E data \in RouteBodies : ChatAdmit(1, data)
  \/ \E up \in Upstreams : ProviderReturn(1, up)
  \/ ChatInsert(1)
  \/ ChatToday(1)
  \/ ChatLog(1)
  \/ ChatRespond(1)

SpecRoute == Init /\ [][NextRoute]_vars

\* One browser request to a login-protected page, and the clock.
NextLogin ==
  \/ \E page \in ProtectedPages, token \in SessionTokens : PageRequest(1, page, token)
  \/ Tick

SpecLogin == Init /\ [][NextLogin]_vars

\* The deliveries of a checkout.session.completed event.
Checkouts ==
  { post \in Deliveries : post.type = "checkout.session.completed" }

\* Requests from two addresses served one at a time, a plan-change event that
\* is delivered until it is logged, and the end of the limiter's window,
\* starting in a window that is nearly used up.
NextRate ==
  \/ \E r \in RateReqs, ep \in Endpoints, key \in {"", "key1", "key2"}, addr \in Addrs :
        NoneInFlight /\ Authenticate(r, ep, key, addr)
  \/ \E r \in RateReqs : ResetTest(r)
  \/ \E r \in RateReqs : LookupRateLimit(r)
  \/ \E r \in RateReqs : LimiterHit(r)
  \/ \E r \in RateReqs, data \in ChatBodies : ChatAdmit(r, data)
  \/ \E r \in RateReqs, up \in Upstreams : ProviderReturn(r, up)
  \/ \E r \in RateReqs : ChatInsert(r)
  \/ \E r \in RateReqs : ChatToday(r)
  \/ \E r \in RateReqs : ChatLog(r)
  \/ \E r \in RateReqs : ChatRespond(r)
  \/ \E r \in RateReqs, data \in OneToolBodies : openclaw_unified(r, data)
  \/ \E r \in RateReqs : OpenclawInsert(r)
  \/ \E r \in RateReqs : OpenclawCommit(r)
  \/ \E post \in Checkouts : webhook_events = {} /\ stripe_webhook(post)
  \/ StripeUpdate
  \/ StripeCommit
  \/ WebhookEventInsert
  \/ WebhookEventCommit
  \/ WindowExpires

SpecRate == InitRate /\ [][NextRate]_vars

\* Two requests, of the same account or of two accounts, interleaved step by
\* step, and the clock.
NextBoth ==
  \/ \E r \in RateReqs, ep \in Endpoints, key \in Credentials :
        Authenticate(r, ep, key, "ip1")
  \/ \E r \in RateReqs : ResetTest(r)
  \/ \E r \in RateReqs : NewResetDate(r)
  \/ \E r \in RateReqs : ResetUpdate(r)
  \/ \E r \in RateReqs : ResetPeriod(r)
  \/ \E r \in RateReqs : LookupRateLimit(r)
  \/ \E r \in RateReqs : LimiterHit(r)
  \/ \E r \in RateReqs, data \in ChatBodies : ChatAdmit(r, data)
  \/ \E r \in RateReqs, up \in Upstreams : ProviderReturn(r, up)
  \/ \E r \in RateReqs : ChatInsert(r)
  \/ \E r \in RateReqs : ChatToday(r)
  \/ \E r \in RateReqs : ChatLog(r)
  \/ \E r \in RateReqs : ChatRespond(r)
  \/ \E r \in RateReqs, data \in ShortBodies : openclaw_unified(r, data)
  \/ \E r \in RateReqs : OpenclawInsert(r)
  \/ \E r \in RateReqs : OpenclawCommit(r)
  \/ Tick

SpecBoth == InitBoth /\ [][NextBoth]_vars

\* The same two requests with plan-change events arriving at any moment, also
\* between the steps of a request, while the clock stands.
NextBothPlan ==
  \/ \E r \in RateReqs, ep \in Endpoints, key \in Credentials :
        Authenticate(r, ep, key, "ip1")
  \/ \E r \in RateReqs : ResetTest(r)
  \/ \E r \in RateReqs : NewResetDate(r)
  \/ \E r \in RateReqs : ResetUpdate(r)
  \/ \E r \in RateReqs : ResetPeriod(r)
  \/ \E r \in RateReqs : LookupRateLimit(r)
  \/ \E r \in RateReqs : LimiterHit(r)
  \/ \E r \in RateReqs, data \in ChatBodies : ChatAdmit(r, data)
  \/ \E r \in RateReqs, up \in Upstreams : ProviderReturn(r, up)
  \/ \E r \in RateReqs : ChatInsert(r)
  \/ \E r \in RateReqs : ChatToday(r)
  \/ \E r \in RateReqs : ChatLog(r)
  \/ \E r \in RateReqs : ChatRespond(r)
  \/ \E r \in RateReqs, data \in ShortBodies : openclaw_unified(r, data)
  \/ \E r \in RateReqs : OpenclawInsert(r)
  \/ \E r \in RateReqs : OpenclawCommit(r)
  \/ \E post \in Deliveries : stripe_webhook(post)
  \/ StripeUpdate
  \/ StripeCommit
  \/ WebhookEventInsert
  \/ WebhookEventCommit
  \/ WebhookConnectionCollected

SpecBothPlan == InitBoth /\ [][NextBothPlan]_vars

\* One chat request of the registered account whose prompt ranges over
\* Prompts.
NextFallback ==
  \/ Authenticate(1, "/api/chat", "key1", "ip1")
  \/ ResetTest(1)
  \/ NewResetDate(1)
  \/ ResetUpdate(1)
  \/ ResetPeriod(1)
  \/ LookupRateLimit(1)
  \/ LimiterHit(1)
  \/ \E data \in FallbackBodies : ChatAdmit(1, data)
  \/ \E up \in Upstreams : ProviderReturn(1, up)
  \/ ChatInsert(1)
  \/ ChatToday(1)
  \/ ChatLog(1)
  \/ ChatRespond(1)

SpecFallback == Init /\ [][NextFallback]_vars

\* One chat request under the production launcher, every step of the request
\* being taken when it stays possible.
NextLive ==
  \/ NextRoute
  \/ WorkerTimeout(1)

SpecLive ==
  /\ Init
  /\ [][NextLive]_vars
  /\ WF_vars(ResetTest(1))
  /\ WF_vars(NewResetDate(1))
  /\ WF_vars(ResetUpdate(1))
  /\ WF_vars(ResetPeriod(1))
  /\ WF_vars(LookupRateLimit(1))
  /\ WF_vars(LimiterHit(1))
  /\ WF_vars(\E data \in RouteBodies : ChatAdmit(1, data))
  /\ WF_vars(\E up \in Upstreams : ProviderReturn(1, up))
  /\ WF_vars(ChatInsert(1))
  /\ WF_vars(ChatToday(1))
  /\ WF_vars(ChatLog(1))
  /\ WF_vars(ChatRespond(1))

(* --------------------- what the properties read ---------------------- *)

\* Request r has committed its bookkeeping: "Log usage" of chat or of
\* openclaw_unified has run to its commit.
Committed(rq, r) == rq[r].committed

\* The call of request r has completed: its provider call has returned, live
\* or fallback, or its loop over the tools has ended.
Completed(rq, r) == rq[r].result.provider # ""

Quiescent == \A r \in Reqs : req[r].pc \in {"idle", "done"}

\* The tokens of the calls completed for account u by requests 1 .. n.
RECURSIVE SpentUpTo(_, _)
SpentUpTo(u, n) ==
  IF n = 0 THEN 0
  ELSE SpentUpTo(u, n - 1)
       + (IF req[n].user_id = u /\ Committed(req, n)
          THEN req[n].result.tokens ELSE 0)

\* No reset of account u has happened since the start of the run.
NoRollover(u) == users[u].tokens_reset_date = users0[u].tokens_reset_date

\* Request r takes a step away from program point pc.
Leaves(r, pc) == req[r].pc = pc /\ req'[r].pc # pc

(* --------------------------------- C1 --------------------------------- *)

\* C1: no lost updates.  When every request has finished and the account's
\* period did not roll over, the stored tokens_used is its initial value plus
\* the tokens of all the calls completed for the account.
C1_NoLostUpdates ==
  \A u \in DOMAIN users :
    (Quiescent /\ NoRollover(u)) =>
      users[u].tokens_used = users0[u].tokens_used + SpentUpTo(u, MaxReqs)

(* --------------------------------- C2 --------------------------------- *)

\* C2: rollover precedes admission.  A request holds the period end of the
\* row it was authenticated with, and when the clock it reads next has passed
\* that period end it goes through the reset: it computes the new period end, 30 days
\* after the clock it reads, executes its UPDATE (or ends with 500 when the
\* database stays locked) and commits; the commit stores tokens_used = 0 and
\* the new period end and leaves the request holding a usage of 0; only from
\* there does the request reach the limiter and the body of its handler; and
\* a chat request holding usage 0 under a positive ceiling is not refused for
\* quota.
C2_RolloverPrecedesAdmission ==
  [][\A r \in Reqs :
       /\ ( /\ Leaves(r, "idle")
            /\ req'[r].user_id # "" )
          => /\ req'[r].pc = "selected"
             /\ req'[r].reset_date = users[req'[r].user_id].tokens_reset_date
       /\ ( /\ Leaves(r, "selected")
            /\ now > req[r].reset_date )
          => req'[r].pc = "reset"
       /\ Leaves(r, "reset")
          => /\ req'[r].pc = "update"
             /\ req'[r].reset_date = now + PERIOD_DAYS
       /\ Leaves(r, "update")
          => /\ req'[r].pc = "resetting" \/ req'[r].status = 500
             /\ users' = users
       /\ Leaves(r, "resetting")
          => /\ req'[r].pc = "handler"
             /\ req'[r].tokens_used = 0
             /\ users'[req[r].user_id].tokens_used = 0
             /\ users'[req[r].user_id].tokens_reset_date = req[r].reset_date
       /\ (req'[r].pc = "handler" /\ req[r].pc # "handler")
          => \/ req[r].pc = "resetting"
             \/ req[r].pc = "selected" /\ ~(now > req[r].reset_date)
       /\ ( /\ Leaves(r, "body")
            /\ req[r].endpoint = "/api/chat"
            /\ req[r].tokens_used = 0
            /\ req[r].tokens_included > 0 )
          => req'[r].status # 429
    ]_vars

\* An account at its ceiling only through the expired period's usage, whose
\* request was reset and is now calling the provider.
C2_Witness ==
  \E r \in Reqs :
    /\ req[r].pc = "calling"
    /\ users0[req[r].user_id].tokens_used >= users0[req[r].user_id].tokens_included
    /\ users0[req[r].user_id].tokens_reset_date < StartDay
    /\ req[r].reset_date = StartDay + PERIOD_DAYS
    /\ req[r].tokens_used = 0

(* --------------------------------- C3 --------------------------------- *)

\* C3: quota denial has no side effects.  A chat request with a prompt that
\* reaches the quota check holding tokens_used >= tokens_included ends there
\* with 429 "quota exceeded": no provider result, no usage_logs row, no
\* analytics_daily change, no change of users; and it takes no further step.
C3_QuotaDenialNoSideEffects ==
  [][\A r \in Reqs :
       /\ ( /\ Leaves(r, "body")
            /\ req[r].endpoint = "/api/chat"
            /\ req'[r].prompt # EmptyPrompt
            /\ req[r].tokens_used >= req[r].tokens_included )
          => /\ req'[r].pc = "done"
             /\ req'[r].status = 429
             /\ req'[r].body.error = "quota_exceeded"
             /\ req'[r].result = NoResult
             /\ UNCHANGED <<users, usage_logs, analytics_daily>>
       /\ req[r].status = 429 => req'[r] = req[r]
    ]_vars

\* A chat request was refused for quota.
C3_Witness ==
  \E r \in Reqs :
    /\ req[r].endpoint = "/api/chat"
    /\ req[r].status = 429
    /\ req[r].tokens_used >= req[r].tokens_included

(* --------------------------------- C4 --------------------------------- *)

\* Chat request q was admitted one token below the ceiling, its call cost 5
\* tokens, and it has returned 200.
AdmittedOneBelow(q) ==
  /\ req[q].endpoint = "/api/chat"
  /\ req[q].pc = "done"
  /\ req[q].status = 200
  /\ req[q].tokens_used = req[q].tokens_included - 1
  /\ req[q].result.tokens = 5

\* r is the next request of q's account after q.
NextOfAccount(q, r) ==
  /\ q < r
  /\ req[r].user_id = req[q].user_id
  /\ \A s \in Reqs : (q < s /\ s < r) => req[s].user_id # req[q].user_id

\* C4: check-before-spend, requests served one at a time.  A chat request
\* admitted at tokens_included - 1 whose call costs 5 leaves the stored
\* tokens_used at tokens_included + 4, and the next chat request of the account
\* in the same period, once past the quota check, was refused with 429.
C4_CheckBeforeSpend ==
  \A q \in Reqs :
    AdmittedOneBelow(q) =>
      /\ (\A s \in Reqs : s > q => req[s].user_id # req[q].user_id)
         => users[req[q].user_id].tokens_used = req[q].tokens_included + 4
      /\ \A r \in Reqs :
           ( /\ NextOfAccount(q, r)
             /\ req[r].endpoint = "/api/chat"
             /\ req[r].reset_date = req[q].reset_date
             /\ req[r].pc \notin {"idle", "selected", "reset", "update",
                                   "resetting", "handler", "hit", "body"}
             /\ req[r].status # 400 )
           => /\ req[r].tokens_used = req[r].tokens_included + 4
              /\ req[r].status = 429

\* The first request was admitted at ceiling - 1 and spent 5; the next one of
\* the same account and period was refused.
C4_Witness ==
  \E q, r \in Reqs :
    /\ AdmittedOneBelow(q)
    /\ NextOfAccount(q, r)
    /\ req[r].endpoint = "/api/chat"
    /\ req[r].reset_date = req[q].reset_date
    /\ req[r].status = 429
    /\ users[req[q].user_id].tokens_used = req[q].tokens_included + 4

(* --------------------------------- C5 --------------------------------- *)

\* The token counts one call can return: live, mock, or the tools endpoint.
CallTokens ==
  { up.tokens : up \in Upstreams }
  \cup { call_openai_mock(DataGet(b, "prompt", EmptyPrompt),
                          DataGet(b, "model", "auto")).tokens : b \in ChatBodies }
  \cup { call_claude_mock(DataGet(b, "prompt", EmptyPrompt),
                          DataGet(b, "model", "auto")).tokens : b \in ChatBodies }
  \cup { k * TOOL_TOKENS : k \in 0 .. MaxTools }

MaxCallTokens == CHOOSE m \in CallTokens : \A t \in CallTokens : t <= m

\* C5: bounded overshoot.  tokens_used never exceeds tokens_included - 1 plus
\* the largest token count of one call.
C5_BoundedOvershoot ==
  \A u \in DOMAIN users :
    users[u].tokens_used <= users[u].tokens_included - 1 + MaxCallTokens

(* --------------------------------- C6 --------------------------------- *)

\* The credentials of the accounts that exist and are active.
ActiveKeys == { ApiKeyOf(u) : u \in { a \in DOMAIN users : users[a].is_active } }

\* C6: authentication denial.  A request whose credential is missing, matches
\* no account or belongs to an inactive account ends with 401 in its first
\* step, which changes no table; it holds no provider result and takes no
\* further step.
C6_AuthDenial ==
  [][\A r \in Reqs :
       /\ (Leaves(r, "idle") /\ req'[r].api_key \notin ActiveKeys)
          => /\ req'[r].pc = "done"
             /\ req'[r].status = 401
             /\ req'[r].result = NoResult
             /\ UNCHANGED <<users, usage_logs, analytics_daily>>
       /\ req[r].status = 401 => req'[r] = req[r]
    ]_vars

\* One request was refused for the key of the demo account, which had been
\* switched off, another for a missing or unknown key.
C6_Witness ==
  \E q, r \in Reqs :
    /\ req[q].status = 401 /\ req[q].api_key = ApiKeyOf("u2")
    /\ ~users["u2"].is_active
    /\ req[r].status = 401 /\ req[r].api_key \in {"", "invalid_key"}

(* --------------------------------- C7 --------------------------------- *)

\* Some request performs the reset of account u in this step.
ResetStep(u) == \E r \in Reqs : Leaves(r, "resetting") /\ req[r].user_id = u

\* C7: within a billing period tokens_used never decreases and is never
\* negative: every step that is not a reset of the account leaves it at least
\* as large as before.
C7_MonotoneWithinPeriod ==
  [][\A u \in DOMAIN users :
       /\ users'[u].tokens_used >= 0
       /\ ~ResetStep(u) => users'[u].tokens_used >= users[u].tokens_used
    ]_vars

(* --------------------------------- C8 --------------------------------- *)

RowsOf(table, u) == SelectSeq(table, LAMBDA row : row.user_id = u)

CompletedCalls(rq, u) ==
  Cardinality({ r \in Reqs : rq[r].user_id = u /\ Completed(rq, r) })

\* C8: exactly one usage record per completed call.  usage_logs only grows at
\* its end; the commit of a chat request's bookkeeping appends exactly one
\* row, carrying the request's account and result; and once the requests have
\* ended, every account has got as many rows since the start as calls that
\* completed for it.
C8_OneRecordPerCall ==
  [][/\ Len(usage_logs') >= Len(usage_logs)
     /\ SubSeq(usage_logs', 1, Len(usage_logs)) = usage_logs
     /\ \A r \in Reqs :
          Leaves(r, "commit") =>
            /\ Len(usage_logs') = Len(usage_logs) + 1
            /\ usage_logs'[Len(usage_logs')].user_id = req[r].user_id
            /\ usage_logs'[Len(usage_logs')].tokens = req[r].result.tokens
            /\ usage_logs'[Len(usage_logs')].endpoint = "/api/chat"
     /\ (\A r \in Reqs : req'[r].pc \in {"idle", "done"})
          => \A u \in Accounts :
               Len(RowsOf(Logged(usage_logs'), u)) = CompletedCalls(req', u)
    ]_vars

(* --------------------------------- C9 --------------------------------- *)

\* total_tokens of the analytics_daily row of (date, user_id), 0 without one.
DailyTokens(table, date, u) ==
  LET rows == { row \in table : row.date = date /\ row.user_id = u }
  IN IF rows = {} THEN 0 ELSE (CHOOSE row \in rows : TRUE).total_tokens

\* C9: no drift between billed and recorded usage.  At the commit of the
\* bookkeeping of a chat request the tokens of the appended usage row, the
\* tokens added to the day's aggregate and the growth of the account's
\* tokens_used are all the call's token count.
C9_NoDrift ==
  [][\A r \in Reqs :
       Leaves(r, "commit") =>
         LET u == req[r].user_id
             t == req[r].result.tokens
         IN /\ usage_logs'[Len(usage_logs')].tokens = t
            /\ DailyTokens(analytics_daily', req[r].today, u)
                 - DailyTokens(analytics_daily, req[r].today, u) = t
            /\ users'[u].tokens_used - users[u].tokens_used = t
    ]_vars

(* --------------------------------- C10 -------------------------------- *)

Days == StartDay .. StartDay + MaxTicks

\* The usage rows of account u written on day date.
DayRows(date, u) ==
  SelectSeq(usage_logs, LAMBDA row : row.user_id = u /\ row.timestamp = date)

\* C10: daily aggregate consistency.  For every (date, account) with usage
\* rows there is one aggregate row whose request count is the number of those
\* rows and whose token sum is the sum of their tokens; without usage rows
\* there is no aggregate row.
C10_DailyAggregate ==
  \A u \in Accounts, date \in Days :
    LET rows == DayRows(date, u)
        agg == { row \in analytics_daily : row.date = date /\ row.user_id = u }
    IN IF rows = << >> THEN agg = {}
       ELSE /\ Cardinality(agg) = 1
            /\ \A a \in agg :
                 /\ a.total_requests = Len(rows)
                 /\ a.total_tokens =
                      SumSeq([i \in 1 .. Len(rows) |-> rows[i].tokens])

(* --------------------------------- C11 -------------------------------- *)

\* The latencies of the usage rows of account u written on day date.
DayLatencies(table, date, u) ==
  LET rows == SelectSeq(table, LAMBDA row : row.user_id = u /\ row.timestamp = date)
  IN [i \in 1 .. Len(rows) |-> rows[i].response_time]

\* C11: average latency.  After the commit of the bookkeeping of a chat call, the
\* aggregate row of (today, account) holds the simple mean of the latencies of
\* all the account's usage rows of the day: average x number of rows = sum of
\* their latencies.
C11_AverageLatency ==
  [][\A r \in Reqs :
       Leaves(r, "commit") =>
         LET lat == DayLatencies(usage_logs', req[r].today, req[r].user_id)
         IN \A a \in analytics_daily' :
              (a.date = req[r].today /\ a.user_id = req[r].user_id)
                => a.avg_response_time * Len(lat) = SumSeq(lat)
    ]_vars

(* --------------------------------- C12 -------------------------------- *)

\* total_requests of the analytics_daily row of (date, user_id), 0 without one.
DailyRequests(table, date, u) ==
  LET rows == { row \in table : row.date = date /\ row.user_id = u }
  IN IF rows = {} THEN 0 ELSE (CHOOSE row \in rows : TRUE).total_requests

\* C12: debit before respond.  A chat request gets its 200 only in a step
\* taken after "Log usage", which writes nothing; and the step that brings it
\* there is the commit of all three writes: the usage row of the call, the
\* debit of the account (the total the response reports) and one more request
\* in the aggregate of the day the request read from the clock inside "Log
\* usage", which may be the day before the commit.
C12_DebitBeforeRespond ==
  [][\A r \in Reqs :
       /\ ( /\ req[r].endpoint = "/api/chat"
            /\ req[r].status # 200
            /\ req'[r].status = 200 )
          => /\ req[r].pc = "respond"
             /\ UNCHANGED <<users, usage_logs, analytics_daily>>
             /\ req'[r].body.total_tokens_used
                  = req[r].tokens_used + req[r].result.tokens
       /\ (req[r].pc # "respond" /\ req'[r].pc = "respond")
          => /\ req[r].pc = "commit"
             /\ usage_logs' = Append(usage_logs,
                                UsageRow(req[r].user_id, req[r].result,
                                         "/api/chat", req[r].timestamp))
             /\ users'[req[r].user_id].tokens_used
                  = req[r].tokens_used + req[r].result.tokens
             /\ DailyRequests(analytics_daily', req[r].today, req[r].user_id)
                  = DailyRequests(analytics_daily, req[r].today, req[r].user_id) + 1
    ]_vars

\* A chat request has returned 200 and its record, its debit and its
\* aggregate row are in the database.
C12_Witness ==
  \E r \in Reqs :
    /\ req[r].endpoint = "/api/chat"
    /\ req[r].pc = "done"
    /\ req[r].status = 200
    /\ \E i \in 1 .. Len(usage_logs) :
         /\ usage_logs[i].user_id = req[r].user_id
         /\ usage_logs[i].endpoint = "/api/chat"
         /\ usage_logs[i].tokens = req[r].result.tokens
    /\ DailyRequests(analytics_daily, req[r].today, req[r].user_id) >= 1
    /\ users[req[r].user_id].tokens_used = req[r].body.total_tokens_used

(* --------------------------------- C13 -------------------------------- *)

\* The reference selection: a named provider with its default model for
\* "auto" and the requested model otherwise; under provider "auto" the model's
\* prefix decides; everything else is (openai, gpt-3.5-turbo).
ReferenceRoute(model, provider) ==
  CASE provider = "openai" ->
         [api |-> "openai",
          model |-> IF model = "auto" THEN "gpt-3.5-turbo" ELSE model]
    [] provider = "anthropic" ->
         [api |-> "anthropic",
          model |-> IF model = "auto" THEN "claude-3-sonnet-20240229" ELSE model]
    [] provider = "auto" /\ StartsWith(model, <<"g", "p", "t">>) ->
         [api |-> "openai", model |-> model]
    [] provider = "auto" /\ StartsWith(model, <<"c", "l", "a", "u", "d", "e">>) ->
         [api |-> "anthropic", model |-> model]
    [] OTHER -> [api |-> "openai", model |-> "gpt-3.5-turbo"]

\* C13: provider routing table.  The route of every admitted chat request is
\* the reference selection for its (model, provider), whatever the account and
\* the database hold, and the result of its provider call carries that
\* provider and model.
C13_RoutingTable ==
  \A r \in Reqs :
    req[r].pc \in {"calling", "log", "logged", "commit", "respond"} =>
      /\ req[r].route = ReferenceRoute(req[r].model, req[r].provider)
      /\ req[r].pc # "calling" =>
            /\ req[r].result.provider = req[r].route.api
            /\ req[r].result.model = req[r].route.model

\* A request naming provider anthropic with a gpt model was answered by the
\* anthropic adapter under that model.
C13_Witness ==
  /\ req[1].pc = "log"
  /\ req[1].provider = "anthropic"
  /\ req[1].model = "gpt-4"
  /\ req[1].result.provider = "anthropic"
  /\ req[1].result.model = "gpt-4"

(* --------------------------------- C14 -------------------------------- *)

\* The fallback responder of the route's provider, on the route's model.
Fallback(route, prompt) ==
  IF route.api = "openai"
  THEN call_openai_mock(prompt, route.model)
  ELSE call_claude_mock(prompt, route.model)

\* C14: upstream failures are absorbed.  For a request calling its provider,
\* an upstream that is not configured or raises yields the fallback result of
\* the same provider and model; the call always returns a result of the route's
\* provider and model, never an error; the request ends with 200 only; and a
\* fallback result is recorded and debited like any result.
C14_UpstreamAbsorbed ==
  [][\A r \in Reqs :
       /\ req[r].pc = "calling"
          => \A up \in Upstreams :
               up.kind # "ok" =>
                 CallProvider(req[r].route, req[r].prompt, up)
                   = Fallback(req[r].route, req[r].prompt)
       /\ Leaves(r, "calling")
          => /\ req'[r].pc = "log"
             /\ req'[r].result.provider = req[r].route.api
             /\ req'[r].result.model = req[r].route.model
             /\ req'[r].result.response \in {"content", "[MOCK]"}
             /\ req'[r].result.response = "[MOCK]"
                  => req'[r].result = Fallback(req[r].route, req[r].prompt)
       /\ req[r].pc \in {"calling", "log", "logged", "commit", "respond"}
          => /\ req'[r].status \in {0, 200}
             /\ req'[r].body.error = ""
       /\ (Leaves(r, "commit") /\ req[r].result.response = "[MOCK]")
          => /\ req'[r].pc = "respond"
             /\ usage_logs' = Append(usage_logs,
                                UsageRow(req[r].user_id, req[r].result,
                                         "/api/chat", req[r].timestamp))
             /\ users'[req[r].user_id].tokens_used
                  = req[r].tokens_used + req[r].result.tokens
             /\ DailyRequests(analytics_daily', req[r].today, req[r].user_id)
                  = DailyRequests(analytics_daily, req[r].today, req[r].user_id) + 1
    ]_vars

\* A request routed to anthropic was answered by the anthropic fallback,
\* returned 200, and its 4 tokens are recorded and debited.
C14_Witness ==
  \E r \in Reqs :
    /\ req[r].pc = "done"
    /\ req[r].status = 200
    /\ req[r].route.api = "anthropic"
    /\ req[r].result = call_claude_mock(req[r].prompt, req[r].route.model)
    /\ Len(Logged(usage_logs)) = 1
    /\ Logged(usage_logs)[1].provider = "anthropic"
    /\ Logged(usage_logs)[1].tokens = 4
    /\ users[req[r].user_id].tokens_used = req[r].tokens_used + 4

(* --------------------------------- C15 -------------------------------- *)

\* C15: no hanging request.  Every chat request that has started its provider
\* call eventually holds a result, live or fallback, and has reached the
\* bookkeeping step.
C15_NoHangingRequest ==
  \A r \in Reqs :
    (req[r].pc = "calling")
      ~> ( /\ req[r].pc \in {"log", "logged", "commit", "respond", "done"}
           /\ req[r].result.provider # "" )

(* --------------------------------- C16 -------------------------------- *)

\* The per-token rates (millionths of a dollar) of the two providers.
ReferenceRate(provider, model) ==
  IF provider = "openai"
  THEN (CASE model = "gpt-4" -> 30 [] model = "gpt-4-turbo" -> 10 [] OTHER -> 2)
  ELSE (CASE model = "claude-3-haiku-20240307" -> 1
          [] model = "claude-3-opus-20240229" -> 75
          [] OTHER -> 15)

\* t = floor(num x n / 10)
IsFloorOfTenths(t, num, n) == 10 * t <= num * n /\ num * n < 10 * (t + 1)

\* C16: fallback determinism.  A fallback result is determined by the prompt
\* and the model it was called with, whatever the account and the database
\* hold: its tokens are floor(1.3 x words) for openai and floor(1.2 x words) for
\* anthropic, its cost is tokens x the model's rate, its provider and model are
\* those of the call and its latency is the provider's nominal one.
C16_FallbackDeterminism ==
  \A r \in Reqs :
    req[r].result.response = "[MOCK]" =>
      LET res == req[r].result
          n == WordCount(req[r].prompt)
      IN /\ res.provider = req[r].route.api
         /\ res.model = req[r].route.model
         /\ res.provider = "openai" => IsFloorOfTenths(res.tokens, 13, n)
         /\ res.provider = "anthropic" => IsFloorOfTenths(res.tokens, 12, n)
         /\ res.cost = res.tokens * ReferenceRate(res.provider, res.model)
         /\ res.response_time
              = (IF res.provider = "openai" THEN OPENAI_MOCK_MS ELSE CLAUDE_MOCK_MS)

\* The anthropic fallback answered a four-word prompt with 4 tokens, and an
\* openai fallback would have answered it with 5.
C16_Witness ==
  /\ req[1].result.response = "[MOCK]"
  /\ req[1].result.provider = "anthropic"
  /\ WordCount(req[1].prompt) = 4
  /\ req[1].result.tokens = 4
  /\ call_openai_mock(req[1].prompt, "gpt-4").tokens = 5

(* --------------------------------- C17 -------------------------------- *)

\* The counters the limiter incremented in this step.
CountedKeys == { k \in LimitKeys : hits'[k] = hits[k] + 1 }

\* The request was refused by the limiter.
IsRefused(rq) == rq.status = 429 /\ rq.body.error = "Too Many Requests"

\* Request r passes the limiter in this step: it is counted, and refused or
\* handed to its view function.
HitStep(r) == AtLimiter(req[r]) /\ req'[r].pc # req[r].pc

\* C17: tier-dependent rate limit.  Every request that reaches the limiter is
\* counted, and it is refused exactly when the requests counted before it in
\* the window have used up the rate_limit of its account's tier: a free
\* caller's 101st request is refused, a pro caller's 101st is admitted.
C17_TierDependentRateLimit ==
  [][\A r \in Reqs :
       HitStep(r) =>
         LET tier == users[req[r].user_id].subscription_tier
             threshold == SUBSCRIPTION_TIERS[tier].rate_limit
         IN /\ CountedKeys # {}
            /\ \A k \in CountedKeys :
                 IsRefused(req'[r]) <=> hits[k] >= threshold
    ]_vars

(* --------------------------------- C18 -------------------------------- *)

\* C18: dynamic threshold.  The limit of a chat request, which get_rate_limit
\* resolves, is the rate_limit of the tier stored for its account at the moment
\* of the lookup, also when a plan change has replaced the tier since the
\* request was authenticated; the limiter counts the request under the limit
\* so resolved and refuses it exactly when the count exceeds it; and a request
\* that was authenticated after the last plan change of its account is counted
\* under the limit of the tier stored when it is counted.
C18_DynamicThreshold ==
  [][\A r \in Reqs :
       /\ (Leaves(r, "handler") /\ req[r].endpoint = "/api/chat")
          => req'[r].rate_limit
               = SUBSCRIPTION_TIERS[users[req[r].user_id].subscription_tier].rate_limit
       /\ Leaves(r, "hit")
          => LET key == <<req[r].addr, "/api/chat", req[r].rate_limit>>
                 stored == users[req[r].user_id].subscription_tier
             IN /\ CountedKeys = {key}
                /\ IsRefused(req'[r]) <=> hits'[key] > req[r].rate_limit
                /\ stored = req[r].tier
                   => req[r].rate_limit = SUBSCRIPTION_TIERS[stored].rate_limit
    ]_vars

\* A chat request authenticated on the free tier, whose free allowance was
\* used up, was admitted under the starter limit after the plan change.
C18_Witness ==
  \E r \in Reqs :
    /\ req[r].endpoint = "/api/chat"
    /\ req[r].pc = "calling"
    /\ req[r].tier = "free"
    /\ users[req[r].user_id].subscription_tier = "starter"
    /\ hits[<<req[r].addr, "/api/chat", SUBSCRIPTION_TIERS.free.rate_limit>>]
         >= SUBSCRIPTION_TIERS.free.rate_limit
    /\ hits[<<req[r].addr, "/api/chat", SUBSCRIPTION_TIERS.starter.rate_limit>>]
         = SUBSCRIPTION_TIERS.free.rate_limit + 1

(* --------------------------------- C19 -------------------------------- *)

\* The counter a request of account b from address addr to endpoint ep is
\* judged against.
AllowanceKey(b, addr, ep) ==
  <<addr, ep, IF ep = "/api/chat"
              THEN get_rate_limit(ApiKeyOf(b), users[b].subscription_tier)
              ELSE OPENCLAW_RATE_LIMIT>>

\* C19: rate-limit counters are per caller.  A request made with one account's
\* credential leaves every counter that judges another account's requests as
\* it was.
C19_PerCallerCounters ==
  [][\A r \in Reqs :
       HitStep(r) =>
         \A b \in DOMAIN users \ {req[r].user_id}, addr \in Addrs, ep \in Endpoints :
           hits'[AllowanceKey(b, addr, ep)] = hits[AllowanceKey(b, addr, ep)]
    ]_vars

(* --------------------------------- C20 -------------------------------- *)

\* C20: RateLimited is independent of quota.  A request whose count exceeds
\* the limit it is counted under is refused as RateLimited whatever its
\* account's tokens_used and tokens_included are; the refusal holds no
\* provider result, changes neither users nor usage_logs nor analytics_daily,
\* and the request takes no further step.
C20_RateLimitedIndependentOfQuota ==
  [][\A r \in Reqs :
       /\ HitStep(r)
          => \A k \in CountedKeys :
               hits'[k] > k[3]
                 => /\ IsRefused(req'[r])
                    /\ req'[r].pc = "done"
                    /\ req'[r].result = NoResult
                    /\ UNCHANGED <<users, usage_logs, analytics_daily>>
       /\ IsRefused(req[r]) => req'[r] = req[r]
    ]_vars

\* One request was refused by the limiter with its account below the
\* ceiling, another with its account above the ceiling, and nothing was
\* recorded.
C20_Witness ==
  \E q, r \in Reqs :
    /\ IsRefused(req[q])
    /\ req[q].tokens_used < req[q].tokens_included
    /\ IsRefused(req[r])
    /\ req[r].tokens_used > req[r].tokens_included
    /\ Logged(usage_logs) = << >>
    /\ users = users0

(* --------------------------------- C21 -------------------------------- *)

\* p lies between 0 and 100.
PercentageInRange(p) ==
  /\ p.den # 0
  /\ IF p.den > 0 THEN 0 <= p.num /\ p.num <= 100 * p.den
                  ELSE 0 >= p.num /\ p.num >= 100 * p.den

\* C21: response quota metadata.  The debit of a chat request stores the sum
\* of the usage the request was admitted with and the call's tokens, and the
\* 200 response of the request reports that same sum as total_tokens_used;
\* its remaining_quota is tokens_included - total_tokens_used, or 0 when that
\* is negative; its quota_percentage lies between 0 and 100; and for a free
\* account admitted with no usage, remaining_quota = 10000 - the call's tokens.
C21_ResponseQuotaMetadata ==
  [][\A r \in Reqs :
       LET total == req[r].tokens_used + req[r].result.tokens
       IN /\ Leaves(r, "commit") => users'[req[r].user_id].tokens_used = total
          /\ (Leaves(r, "respond") /\ req'[r].status = 200)
             => LET body == req'[r].body
                    left == req[r].tokens_included - body.total_tokens_used
                IN /\ body.total_tokens_used = total
                   /\ body.tokens_used = req[r].result.tokens
                   /\ body.remaining_quota >= 0
                   /\ body.remaining_quota = (IF left >= 0 THEN left ELSE 0)
                   /\ PercentageInRange(body.quota_percentage)
                   /\ ( /\ req[r].tokens_used = 0
                        /\ req[r].tokens_included
                             = SUBSCRIPTION_TIERS.free.tokens_per_month )
                      => body.remaining_quota
                           = SUBSCRIPTION_TIERS.free.tokens_per_month
                               - body.tokens_used
    ]_vars

\* One chat call pushed a free account from 9999 to 10004 and reported no
\* remaining quota at 100 percent; after the rollover another call of the
\* account reported 10000 minus its own tokens.
C21_Witness ==
  \E q, r \in Reqs :
    /\ req[q].status = 200 /\ req[q].endpoint = "/api/chat"
    /\ req[q].body.total_tokens_used = req[q].tokens_included + 4
    /\ req[q].body.remaining_quota = 0
    /\ req[q].body.quota_percentage = [num |-> 100, den |-> 1]
    /\ req[r].status = 200 /\ req[r].endpoint = "/api/chat"
    /\ req[r].user_id = req[q].user_id
    /\ req[r].tokens_used = 0
    /\ req[r].body.tokens_used > 0
    /\ req[r].body.remaining_quota
         = SUBSCRIPTION_TIERS.free.tokens_per_month - req[r].body.tokens_used
    /\ req[r].body.quota_percentage.num = 100 * req[r].body.tokens_used

(* --------------------------------- C22 -------------------------------- *)

\* C22: field ownership.  A step that changes an account's tier or
\* tokens_included is not a step of a request and leaves the account's
\* tokens_used, period end and active flag as they were; a step of a request
\* (its authentication, rollover, debit or response) leaves the tier,
\* tokens_included and active flag of every account as they were, and changes
\* tokens_used and the period end of no account but the request's own.
C22_FieldOwnership ==
  [][/\ \A u \in DOMAIN users :
          ( \/ users'[u].subscription_tier # users[u].subscription_tier
            \/ users'[u].tokens_included # users[u].tokens_included )
          => /\ req' = req
             /\ users'[u].tokens_used = users[u].tokens_used
             /\ users'[u].tokens_reset_date = users[u].tokens_reset_date
             /\ users'[u].is_active = users[u].is_active
     /\ \A r \in Reqs :
          req'[r] # req[r]
          => \A u \in DOMAIN users :
               /\ users'[u].subscription_tier = users[u].subscription_tier
               /\ users'[u].tokens_included = users[u].tokens_included
               /\ users'[u].is_active = users[u].is_active
               /\ u # req'[r].user_id
                  => /\ users'[u].tokens_used = users[u].tokens_used
                     /\ users'[u].tokens_reset_date = users[u].tokens_reset_date
    ]_vars

\* An account has been through a plan change, a rollover and a debit: it is
\* on the starter plan with a new period end and the usage of one call.
C22_Witness ==
  \E r \in Reqs :
    LET u == req[r].user_id
    IN /\ req[r].status = 200
       /\ users0[u].subscription_tier = "free"
       /\ users[u].subscription_tier = "starter"
       /\ users[u].tokens_included = SUBSCRIPTION_TIERS.starter.tokens_per_month
       /\ users[u].tokens_reset_date > users0[u].tokens_reset_date
       /\ users[u].tokens_used = req[r].result.tokens
       /\ users[u].tokens_used > 0
       /\ users[u].is_active

(* --------------------------------- C23 -------------------------------- *)

\* C23: accounting is exactly-once.  When every request has ended and one
\* chat request of an account ended after its provider call returned a
\* result, that call is recorded and debited exactly once: the account got
\* one usage row, which carries the call's tokens, and the account's
\* tokens_used is the usage the request was admitted with plus those tokens.
C23_AccountingExactlyOnce ==
  \A u \in DOMAIN users :
    LET ended == { r \in Reqs : /\ req[r].endpoint = "/api/chat"
                                /\ req[r].user_id = u
                                /\ req[r].pc = "done"
                                /\ req[r].result.provider # "" }
    IN (Quiescent /\ Cardinality(ended) = 1)
       => \A r \in ended :
            /\ Len(RowsOf(Logged(usage_logs), u)) = 1
            /\ RowsOf(Logged(usage_logs), u)[1].tokens = req[r].result.tokens
            /\ users[u].tokens_used = req[r].tokens_used + req[r].result.tokens

(* --------------------------------- C24 -------------------------------- *)

\* C24: empty prompt.  A chat request that reaches its view function and whose
\* prompt is missing or empty ends in that step with 400 "Prompt required",
\* whatever its quota: it holds no provider result, and the step
\* changes neither users nor usage_logs nor analytics_daily; the request takes
\* no further step.  A request with a prompt never gets 400.
C24_EmptyPrompt ==
  [][\A r \in Reqs :
       /\ ( /\ Leaves(r, "body")
            /\ req[r].endpoint = "/api/chat" )
          => IF req'[r].prompt = EmptyPrompt
             THEN /\ req'[r].pc = "done"
                  /\ req'[r].status = 400
                  /\ req'[r].body.error = "Prompt required"
                  /\ req'[r].result = NoResult
                  /\ UNCHANGED <<users, usage_logs, analytics_daily>>
             ELSE req'[r].status # 400
       /\ req[r].status = 400 => req'[r] = req[r]
    ]_vars

\* An account above its ceiling got 400 for a request without a prompt, and
\* nothing was recorded.
C24_Witness ==
  \E r \in Reqs :
    /\ req[r].endpoint = "/api/chat"
    /\ req[r].pc = "done"
    /\ req[r].status = 400
    /\ req[r].tokens_used > req[r].tokens_included
    /\ users = users0
    /\ Logged(usage_logs) = << >>
    /\ analytics_daily = HistoryDaily(HistoryLogs(users0))

(* --------------------------------- C25 -------------------------------- *)

\* The number of entries of a "tools" array that carry a tool name.
NamedEntries(tools) == Cardinality({ i \in 1 .. Len(tools) : tools[i] # "" })

\* Every request of account u that has arrived went to /api/openclaw.
OnlyOpenclaw(rq, u) ==
  \A r \in Reqs : rq[r].user_id = u => rq[r].endpoint = "/api/openclaw"

\* The tokens reported by the 200 responses to account u.
RECURSIVE ReportedUpTo(_, _, _)
ReportedUpTo(rq, u, n) ==
  IF n = 0 THEN 0
  ELSE ReportedUpTo(rq, u, n - 1)
       + (IF rq[n].user_id = u /\ rq[n].status = 200
          THEN rq[n].body.tokens_used ELSE 0)

\* C25: accounting of the unified tools endpoint.  The view function of an
\* /api/openclaw request that the limiter has let through and whose body carries
\* a tools array with k named entries builds k results and tokens_used =
\* 10 x k; its INSERT follows and writes nothing before the commit; its
\* commit answers 200 with that body, appends one usage row with tokens =
\* 10 x k for the account, and adds 10 x k to the tokens_used stored at that
\* moment.  When an account has only made /api/openclaw requests, all
\* finished, within one period, its tokens_used is its initial value plus the
\* tokens reported to it by the 200 responses, however the requests
\* interleaved.
C25_OpenclawAccounting ==
  [][/\ \A r \in Reqs, data \in OpenclawBodies :
          ( /\ openclaw_unified(r, data)
            /\ data.has_tools )
          => LET k == NamedEntries(data.tools)
             IN /\ req'[r].pc = "oc_log"
                /\ req'[r].body.results = k
                /\ req'[r].body.tokens_used = TOOL_TOKENS * k
                /\ req'[r].result.tokens = TOOL_TOKENS * k
     /\ \A r \in Reqs :
          Leaves(r, "oc_log")
          => /\ req'[r].pc = "oc_commit"
             /\ UNCHANGED <<users, usage_logs>>
     /\ \A r \in Reqs :
          Leaves(r, "oc_commit")
          => LET u == req[r].user_id
                 total == req[r].body.tokens_used
             IN /\ req'[r].pc = "done"
                /\ req'[r].status = 200
                /\ req'[r].body = req[r].body
                /\ Len(usage_logs') = Len(usage_logs) + 1
                /\ SubSeq(usage_logs', 1, Len(usage_logs)) = usage_logs
                /\ usage_logs'[Len(usage_logs')].user_id = u
                /\ usage_logs'[Len(usage_logs')].tokens = total
                /\ usage_logs'[Len(usage_logs')].endpoint = "openclaw_unified"
                /\ users'[u].tokens_used = users[u].tokens_used + total
     /\ \A u \in DOMAIN users :
          ( /\ \A r \in Reqs : req'[r].pc \in {"idle", "done"}
            /\ users'[u].tokens_reset_date = users0[u].tokens_reset_date
            /\ OnlyOpenclaw(req', u) )
          => users'[u].tokens_used
               = users0[u].tokens_used + ReportedUpTo(req', u, MaxReqs)
    ]_vars

(* --------------------------------- C26 -------------------------------- *)

\* The session holds a token that carries the server's signature and has not
\* expired.
ValidSession(token) ==
  /\ token # NoToken
  /\ token.key = JWT_SECRET_KEY
  /\ now < token.exp

\* C26: login gate.  A request to a login-protected page whose session holds
\* no token, or a token that is forged or expired, renders nothing and is
\* redirected to the login page, and its session holds no token afterwards.
C26_LoginGate ==
  [][\A r \in Reqs :
       ( /\ Leaves(r, "idle")
         /\ req'[r].endpoint \in ProtectedPages
         /\ ~ValidSession(req'[r].session) )
       => /\ req'[r].rendered = ""
          /\ req'[r].status = 302
          /\ req'[r].location = "/auth/login"
          /\ req'[r].session_after = NoToken
    ]_vars

(* --------------------------------- C27 -------------------------------- *)

\* C27: rollover happens at most once per expired period.  While the stored
\* period end of an account has not passed, the reset step of a request, also
\* of one that read the account before the period end was advanced, leaves the
\* account's tokens_used and period end as they are.
C27_RolloverAtMostOnce ==
  [][\A u \in DOMAIN users :
       (ResetStep(u) /\ ~(now > users[u].tokens_reset_date))
       => /\ users'[u].tokens_used = users[u].tokens_used
          /\ users'[u].tokens_reset_date = users[u].tokens_reset_date
    ]_vars

(* --------------------------------- C28 -------------------------------- *)

\* The tokens of all the calls completed for account u by requests 1 .. n in
\* the requests rq: an upper bound of those debited after a rollover.
RECURSIVE SpentBy(_, _, _)
SpentBy(rq, u, n) ==
  IF n = 0 THEN 0
  ELSE SpentBy(rq, u, n - 1)
       + (IF rq[n].user_id = u /\ Committed(rq, n) THEN rq[n].result.tokens ELSE 0)

\* C28: no carry-over across rollover.  The debit of a chat request that was
\* authenticated under a period end that has since been replaced adds the
\* tokens of its own call to the stored tokens_used and nothing else; and once
\* an account has rolled over, its tokens_used is at most the tokens of the
\* calls made for it.
C28_NoCarryOver ==
  [][/\ \A r \in Reqs :
          ( /\ Leaves(r, "commit")
            /\ req[r].reset_date # users[req[r].user_id].tokens_reset_date )
          => users'[req[r].user_id].tokens_used
               = users[req[r].user_id].tokens_used + req[r].result.tokens
     /\ \A u \in DOMAIN users :
          users'[u].tokens_reset_date # users0[u].tokens_reset_date
          => users'[u].tokens_used <= SpentBy(req', u, MaxReqs)
    ]_vars

(* --------------------------------- C29 -------------------------------- *)

\* C29: every debit is gated by the quota check.  No step of a request that
\* holds, from its authentication and rollover, a usage that has reached its
\* tokens_included increases the tokens_used stored for its account, on
\* /api/chat and on /api/openclaw alike.
C29_DebitGatedByQuota ==
  [][\A r \in Reqs :
       ( /\ req'[r] # req[r]
         /\ req[r].pc \in {"handler", "hit", "body", "calling", "log", "logged", "commit",
                           "oc_log", "oc_commit", "respond"}
         /\ req[r].tokens_used >= req[r].tokens_included )
       => users'[req[r].user_id].tokens_used <= users[req[r].user_id].tokens_used
    ]_vars

(* --------------------------------- C30 -------------------------------- *)

\* C30: the quota percentage is always defined.  A chat request past its
\* quota check holds 0 <= tokens_used < tokens_included, so that the response
\* step divides by a positive tokens_included and answers 200; and a chat
\* request with a prompt whose tokens_included is 0 ends at the quota check
\* with 429 "quota exceeded".
C30_QuotaPercentageDefined ==
  [][\A r \in Reqs :
       /\ req'[r].pc \in {"calling", "log", "logged", "commit", "respond"}
          => /\ 0 <= req'[r].tokens_used
             /\ req'[r].tokens_used < req'[r].tokens_included
       /\ Leaves(r, "respond")
          => /\ req[r].tokens_included > 0
             /\ req'[r].status = 200
             /\ req'[r].body.quota_percentage.den > 0
       /\ ( /\ Leaves(r, "body")
            /\ req[r].endpoint = "/api/chat"
            /\ req[r].tokens_included = 0
            /\ req'[r].status # 400 )
          => /\ req'[r].pc = "done"
             /\ req'[r].status = 429
             /\ req'[r].body.error = "quota_exceeded"
    ]_vars

\* The account put on a plan without included tokens was refused at the quota
\* check, after its rollover, and a call of the other account was answered
\* with its percentage.
C30_Witness ==
  \E q, r \in Reqs :
    /\ req[q].endpoint = "/api/chat"
    /\ req[q].tokens_included = 0
    /\ req[q].reset_date > users0[req[q].user_id].tokens_reset_date
    /\ req[q].status = 429
    /\ req[q].body.error = "quota_exceeded"
    /\ req[r].endpoint = "/api/chat"
    /\ req[r].status = 200
    /\ req[r].body.quota_percentage.den > 0
    /\ req[r].body.quota_percentage.num > 0

(* --------------------------------- C31 -------------------------------- *)

\* The rows of the analytics_daily table that belong to account u.
AggregatesOf(table, u) == { row \in table : row.user_id = u }

\* The aggregate rows of table written since the start of the run.
Aggregated(table) == table \ HistoryDaily(HistoryLogs(users0))

\* C31: per-account isolation.  A step of a request (its authentication,
\* rollover, handler, debit with usage record and aggregate update, response)
\* leaves the users row of every account other than the one it is
\* authenticated as unchanged, and neither adds nor changes usage rows or
\* aggregate rows of such an account.
C31_PerAccountIsolation ==
  [][\A r \in Reqs :
       req'[r] # req[r]
       => \A b \in DOMAIN users \ {req'[r].user_id} :
            /\ users'[b] = users[b]
            /\ RowsOf(usage_logs', b) = RowsOf(usage_logs, b)
            /\ AggregatesOf(analytics_daily', b) = AggregatesOf(analytics_daily, b)
    ]_vars

\* Two chat requests of two accounts are in flight together, both after the
\* rollover of their account and their debit: each account holds the tokens of
\* its own call, one usage row and one aggregate row.
C31_Witness ==
  \E q, r \in Reqs :
    /\ req[q].pc = "respond" /\ req[q].user_id = "u1"
    /\ req[r].pc = "respond" /\ req[r].user_id = "u2"
    /\ users["u1"].tokens_reset_date > users0["u1"].tokens_reset_date
    /\ users["u2"].tokens_reset_date > users0["u2"].tokens_reset_date
    /\ req[q].result.tokens # req[r].result.tokens
    /\ users["u1"].tokens_used = req[q].result.tokens
    /\ users["u2"].tokens_used = req[r].result.tokens
    /\ Len(RowsOf(Logged(usage_logs), "u1")) = 1
    /\ Len(RowsOf(Logged(usage_logs), "u2")) = 1
    /\ Cardinality(AggregatesOf(Aggregated(analytics_daily), "u1")) = 1
    /\ Cardinality(AggregatesOf(Aggregated(analytics_daily), "u2")) = 1

====
